---- MODULE Spec2Model ----
(***************************************************************************)
(* Model of servicenow-theme-loader: ThemeParser (parser.js), the colour    *)
(* scale generator, the merge, validation and serialisation of theme       *)
(* documents, ServiceNowThemeLoader (index.js), which loads documents     *)
(* concurrently, merges them and applies the merged theme to the page,     *)
(* and withThemes with the theme-switcher element (example.js).            *)
(*                                                                         *)
(* Strings (colour strings "r,g,b", object keys) are sequences of          *)
(* one-character strings.  JavaScript values are tagged records:           *)
(* [str |-> s], [num |-> n], [bool |-> b].  A JavaScript object is the     *)
(* sequence of its own entries <<key, value>> in insertion order, stored   *)
(* in a heap, so that two references to one object are distinguishable     *)
(* from two equal copies.                                                  *)
(*                                                                         *)
(* Arithmetic: the code computes with IEEE doubles and Math.round.  The    *)
(* model computes with exact fractions <<numerator, denominator>> and      *)
(* rounds half up.  On integer channels 0..255 the two agree: every exact  *)
(* value that is not a tie is at least 1/42 away from one, and the only    *)
(* ties (c + (255 - c) * 0.25 and c * 0.65) are computed exactly by the    *)
(* doubles.                                                                *)
(***************************************************************************)
EXTENDS Integers, Sequences, FiniteSets, TLC

VARIABLES
    op,         \* which entry point the current behaviour exercises
    pc,         \* generateColorScale: "call" before the call, "done" after
    rgb,        \* generateColorScale: the colour whose string is passed
    baseColor,  \* generateColorScale: argument baseColor (characters)
    points,     \* generateColorScale: argument points
    scale,      \* generateColorScale: returned array, <<>> before return
    heap,       \* the objects that exist: heap[ref] is the object's entries
    themes,     \* merge: argument themes, an array of documents
    merged,     \* merge(themes): <<>> before the call, <<document>> after
    folded,     \* left-to-right pairwise fold of merge over themes
    foldNext,   \* index of the next document the pairwise fold takes
    generated,  \* generateScales: the counts it logged, oldest first
    value,      \* resolveValue, validate: the argument
    returned,   \* <<>> before the call returns, <<result>> after
    resolvedVars, \* the parser's this.resolvedVars, a Map as its entries in order
    history,    \* the calls made on the parser so far, each with its result
    enableCache,     \* loader: this.enableCache
    preloadedThemes, \* loader: this.preloadedThemes, path -> document
    server,     \* what a fetch of each full path is answered with
    cache,      \* loader: this.cache, full path -> document
    activeTheme, \* loader: this.activeTheme: Null, [path |-> p] or [paths |-> array]
    style,      \* document.documentElement.style: custom property -> text
    calls,      \* the loadThemeSet and loadAndApply calls made, oldest first
    warned,     \* the console.warn calls of validation, in order: <<path, errors>>
    page        \* withThemes and the theme-switcher element of the page

vars == <<op, pc, rgb, baseColor, points, scale,
          heap, themes, merged, folded, foldNext, generated, value, returned,
          resolvedVars, history,
          enableCache, preloadedThemes, server, cache, activeTheme, style, calls,
          warned, page>>
scaleVars == <<pc, rgb, baseColor, points, scale>>
mergeVars == <<heap, themes, merged, folded, foldNext>>
callVars == <<value, returned>>
parserVars == <<resolvedVars, history>>
loaderVars == <<enableCache, preloadedThemes, server, cache, activeTheme, style, calls,
                warned, page>>

(***************************************************************************)
(* Bounds and program constants                                            *)
(***************************************************************************)
\* channel values tried in the two channels that are not swept over 0..255
SampleStep == 85

ChannelMax == 255

\* const tint = 0.25, shade2 = 0.80, shade3 = 0.65, midPoint = 0.5
tint == <<25, 100>>
shade2 == <<80, 100>>
shade3 == <<65, 100>>
midPoint == <<5, 10>>

\* the example colour of the documentation, "61,74,80"
ExampleColor == <<61, 74, 80>>

(***************************************************************************)
(* Exact fractions <<n, d>> with d > 0                                     *)
(***************************************************************************)
R(n) == <<n, 1>>
RAdd(a, b) == <<a[1] * b[2] + b[1] * a[2], a[2] * b[2]>>
RSub(a, b) == <<a[1] * b[2] - b[1] * a[2], a[2] * b[2]>>
RMul(a, b) == <<a[1] * b[1], a[2] * b[2]>>
\* a / b for b > 0
RDiv(a, b) == <<a[1] * b[2], a[2] * b[1]>>
RLess(a, b) == a[1] * b[2] < b[1] * a[2]

\* Math.round: nearest integer, ties toward +Infinity
MathRound(a) == (2 * a[1] + a[2]) \div (2 * a[2])

(***************************************************************************)
(* Strings as character sequences                                          *)
(***************************************************************************)
Digits == <<"0", "1", "2", "3", "4", "5", "6", "7", "8", "9">>

IsDigit(ch) == \E d \in 1..10 : Digits[d] = ch

DigitVal(ch) == (CHOOSE d \in 1..10 : Digits[d] = ch) - 1

\* String(n) for an integer n, as in the template literal `${n}`
RECURSIVE NumberToString(_)
NumberToString(n) ==
    IF n < 0 THEN <<"-">> \o NumberToString(0 - n)
    ELSE IF n < 10 THEN <<Digits[n + 1]>>
    ELSE NumberToString(n \div 10) \o <<Digits[(n % 10) + 1]>>

\* Number(s) for a string of decimal digits; Number("") is 0
RECURSIVE Number(_)
Number(s) ==
    IF s = <<>> THEN 0
    ELSE 10 * Number(SubSeq(s, 1, Len(s) - 1)) + DigitVal(s[Len(s)])

\* s.split(','): the pieces between the commas
RECURSIVE Split(_)
Split(s) ==
    IF \A i \in 1..Len(s) : s[i] # ","
    THEN <<s>>
    ELSE LET k == CHOOSE i \in 1..Len(s) :
                      s[i] = "," /\ \A j \in 1..(i - 1) : s[j] # ","
         IN <<SubSeq(s, 1, k - 1)>> \o Split(SubSeq(s, k + 1, Len(s)))

\* `${a},${b},${c}`
Triple(a, b, c) ==
    NumberToString(a) \o <<",">> \o NumberToString(b) \o <<",">> \o NumberToString(c)

(***************************************************************************)
(* JavaScript values                                                       *)
(***************************************************************************)
Str(s) == [str |-> s]
Num(n) == [num |-> n]
Bool(b) == [bool |-> b]
Undefined == [undef |-> TRUE]
Null == [null |-> TRUE]
NaN == [nan |-> TRUE]

\* typeof v === 'string'
IsString(v) == DOMAIN v = {"str"}

\* v is a number other than NaN
IsNumber(v) == DOMAIN v = {"num"}

\* ToBoolean(v), as in `if (baseValue && ...)`
Truthy(v) ==
    IF DOMAIN v = {"str"} THEN v.str # <<>>
    ELSE IF DOMAIN v = {"num"} THEN v.num # 0
    ELSE IF DOMAIN v = {"bool"} THEN v.bool
    ELSE FALSE

\* String(v), as a template literal `${v}` converts v
StringOf(v) ==
    IF DOMAIN v = {"str"} THEN v.str
    ELSE IF DOMAIN v = {"num"} THEN NumberToString(v.num)
    ELSE IF DOMAIN v = {"bool"}
    THEN (IF v.bool THEN <<"t", "r", "u", "e">> ELSE <<"f", "a", "l", "s", "e">>)
    ELSE IF DOMAIN v = {"nan"} THEN <<"N", "a", "N">>
    ELSE IF DOMAIN v = {"null"} THEN <<"n", "u", "l", "l">>
    ELSE <<"u", "n", "d", "e", "f", "i", "n", "e", "d">>

\* Number(s) for one piece of split(','): a run of decimal digits is its value,
\* a piece holding a character that no numeric literal has (a letter other
\* than in Infinity, e, x, o, b) is NaN.  Pieces with signs, points, exponents
\* or blanks do not occur in the documents of this model.
ToNumber(s) == IF \A i \in 1..Len(s) : IsDigit(s[i]) THEN Num(Number(s)) ELSE NaN

\* const [r, g, b] = baseColor.split(',').map(Number): a missing piece leaves
\* its variable undefined, further pieces are dropped
Channels(color) ==
    [k \in 1..3 |-> IF k <= Len(Split(color)) THEN ToNumber(Split(color)[k])
                    ELSE Undefined]

\* Math.round(<arithmetic on c>): f on a number, NaN on NaN and on undefined
Rounded(f(_), c) == IF IsNumber(c) THEN Num(f(c.num)) ELSE NaN

\* `${a},${b},${c}` for values a, b, c
Template(a, b, c) ==
    StringOf(a) \o <<",">> \o StringOf(b) \o <<",">> \o StringOf(c)

(***************************************************************************)
(* ThemeParser.generateColorScale                                          *)
(***************************************************************************)
\* Index 0 of the 4-point scale, one channel: Math.round(c + (255 - c) * tint)
Tint0Drift(c) == MathRound(RAdd(R(c), RMul(R(c), tint)))
Tint0(c) == MathRound(RAdd(R(c), RMul(R(ChannelMax - c), tint)))

\* Index 1 of the 4-point scale, one channel: the parsed number itself
Base1Drift(c) == Rounded(LAMBDA x : MathRound(RMul(R(x), <<99, 100>>)), c)
Base1(c) == c

\* Index 2: Math.round(c * shade2)
Shade2Trunc(c) == RMul(R(c), shade2)[1] \div RMul(R(c), shade2)[2]
Shade2(c) == MathRound(RMul(R(c), shade2))

\* Index 3: Math.round(c * shade3)
Shade3(c) == MathRound(RMul(R(c), shade3))

\* the if (points === 4) branch
FourPointScale(r, g, b) ==
    << Template(Rounded(Tint0, r), Rounded(Tint0, g), Rounded(Tint0, b)),
       Template(Base1(r), Base1(g), Base1(b)),
       Template(Rounded(Shade2, r), Rounded(Shade2, g), Rounded(Shade2, b)),
       Template(Rounded(Shade3, r), Rounded(Shade3, g), Rounded(Shade3, b)) >>

\* const t = i / (points - 1)
ScaleT(i, n) == RDiv(R(i), R(n - 1))

\* one channel of an interior entry, t < midPoint: white to base
WhiteToBaseUnscaled(c, i, n) ==
    MathRound(RAdd(R(ChannelMax), RMul(R(c - ChannelMax), ScaleT(i, n))))
WhiteToBase(c, i, n) ==
    LET factor == RDiv(ScaleT(i, n), midPoint)
    IN MathRound(RAdd(R(ChannelMax), RMul(R(c - ChannelMax), factor)))

\* one channel of an interior entry, t >= midPoint: base to black
BaseToBlackUnscaled(c, i, n) ==
    MathRound(RMul(R(c), RSub(R(1), ScaleT(i, n))))
BaseToBlack(c, i, n) ==
    LET factor == RDiv(RSub(ScaleT(i, n), midPoint), RSub(R(1), midPoint))
    IN MathRound(RMul(R(c), RSub(R(1), factor)))

\* body of the for loop: entry i (0-based) of a scale of n points
ScaleEntry(r, g, b, i, n) ==
    IF i = 0 THEN Template(Num(ChannelMax), Num(ChannelMax), Num(ChannelMax))
    ELSE IF i = n - 1 THEN Template(Num(0), Num(0), Num(0))
    ELSE IF RLess(ScaleT(i, n), midPoint)
    THEN Template(Rounded(LAMBDA c : WhiteToBase(c, i, n), r),
                  Rounded(LAMBDA c : WhiteToBase(c, i, n), g),
                  Rounded(LAMBDA c : WhiteToBase(c, i, n), b))
    ELSE Template(Rounded(LAMBDA c : BaseToBlack(c, i, n), r),
                  Rounded(LAMBDA c : BaseToBlack(c, i, n), g),
                  Rounded(LAMBDA c : BaseToBlack(c, i, n), b))

\* the else branch: for (let i = 0; i < points; i++)
GradientScaleShort(r, g, b, n) == [k \in 1..(n - 1) |-> ScaleEntry(r, g, b, k - 1, n)]
GradientScale(r, g, b, n) == [k \in 1..n |-> ScaleEntry(r, g, b, k - 1, n)]

\* split(',').map(Number) of a string of decimal channels, as plain integers
ParseChannels(color) == [k \in 1..Len(Split(color)) |-> Number(Split(color)[k])]

generateColorScale(color, n) ==
    LET r == Channels(color)[1]
        g == Channels(color)[2]
        b == Channels(color)[3]
    IN IF n = 4 THEN FourPointScale(r, g, b) ELSE GradientScale(r, g, b, n)

(***************************************************************************)
(* JavaScript objects                                                      *)
(***************************************************************************)
\* An object is the sequence of its own entries <<key, value>>, in insertion order
EmptyObject == <<>>

Has(o, k) == \E i \in 1..Len(o) : o[i][1] = k

\* o[k]
Get(o, k) ==
    IF Has(o, k) THEN o[CHOOSE i \in 1..Len(o) : o[i][1] = k][2] ELSE Undefined

\* o[k] = v: an existing key keeps its position, a new key goes last
Put(o, k, v) ==
    IF Has(o, k)
    THEN [o EXCEPT ![CHOOSE i \in 1..Len(o) : o[i][1] = k] = <<k, v>>]
    ELSE Append(o, <<k, v>>)

\* o[k] = v for every entry <<k, v>> of entries, in order (the keys of entries
\* are distinct): written as the result of the loop, because a loop of Len(entries)
\* nested Put calls is deeper than the evaluator's stack allows
PutAll(o, entries) ==
    LET written(k) == CHOOSE i \in 1..Len(entries) : entries[i][1] = k
    IN [j \in 1..Len(o) |->
           IF Has(entries, o[j][1]) THEN entries[written(o[j][1])] ELSE o[j]]
       \o SelectSeq(entries, LAMBDA e : ~Has(o, e[1]))

\* Object.assign(target, source): copies source's own entries in source order
ObjectAssign(target, source) == PutAll(target, source)

\* the object as a mapping, insertion order forgotten
AsMap(o) == {o[i] : i \in 1..Len(o)}

\* a reference into the heap; Absent is a section the document does not have
Absent == 0

\* A document is an object { base, properties }, each section a reference to
\* an object or Absent, or a value that is not an object: null, a string, a
\* number, a boolean, undefined.
\* themeData && typeof themeData === 'object'
IsDocument(d) == DOMAIN d = {"base", "properties"}

(***************************************************************************)
(* ThemeParser.generateScales and ThemeParser.merge                        *)
(***************************************************************************)

neutralColorsAndBrand == <<
    <<"-", "-", "n", "o", "w", "-", "c", "o", "l", "o", "r", "-", "-", "n", "e", "u", "t", "r", "a", "l">>,
    <<"-", "-", "n", "o", "w", "-", "c", "o", "l", "o", "r", "-", "-", "b", "r", "a", "n", "d">> >>
neutralColors == <<
    <<"-", "-", "n", "o", "w", "-", "c", "o", "l", "o", "r", "-", "-", "n", "e", "u", "t", "r", "a", "l">> >>

fourPointColors == <<
    <<"-", "-", "n", "o", "w", "-", "c", "o", "l", "o", "r", "-", "-", "p", "r", "i", "m", "a", "r", "y">>,
    <<"-", "-", "n", "o", "w", "-", "c", "o", "l", "o", "r", "-", "-", "s", "e", "c", "o", "n", "d", "a", "r", "y">>,
    <<"-", "-", "n", "o", "w", "-", "c", "o", "l", "o", "r", "_", "s", "e", "l", "e", "c", "t", "i", "o", "n", "-", "-", "p", "r", "i", "m", "a", "r", "y">>,
    <<"-", "-", "n", "o", "w", "-", "c", "o", "l", "o", "r", "_", "s", "e", "l", "e", "c", "t", "i", "o", "n", "-", "-", "s", "e", "c", "o", "n", "d", "a", "r", "y">>,
    <<"-", "-", "n", "o", "w", "-", "c", "o", "l", "o", "r", "-", "-", "i", "n", "t", "e", "r", "a", "c", "t", "i", "v", "e">>,
    <<"-", "-", "n", "o", "w", "-", "c", "o", "l", "o", "r", "-", "-", "l", "i", "n", "k">>,
    <<"-", "-", "n", "o", "w", "-", "c", "o", "l", "o", "r", "-", "-", "f", "o", "c", "u", "s">>,
    <<"-", "-", "n", "o", "w", "-", "c", "o", "l", "o", "r", "_", "a", "l", "e", "r", "t", "-", "-", "c", "r", "i", "t", "i", "c", "a", "l">>,
    <<"-", "-", "n", "o", "w", "-", "c", "o", "l", "o", "r", "_", "a", "l", "e", "r", "t", "-", "-", "h", "i", "g", "h">>,
    <<"-", "-", "n", "o", "w", "-", "c", "o", "l", "o", "r", "_", "a", "l", "e", "r", "t", "-", "-", "w", "a", "r", "n", "i", "n", "g">>,
    <<"-", "-", "n", "o", "w", "-", "c", "o", "l", "o", "r", "_", "a", "l", "e", "r", "t", "-", "-", "m", "o", "d", "e", "r", "a", "t", "e">>,
    <<"-", "-", "n", "o", "w", "-", "c", "o", "l", "o", "r", "_", "a", "l", "e", "r", "t", "-", "-", "i", "n", "f", "o">>,
    <<"-", "-", "n", "o", "w", "-", "c", "o", "l", "o", "r", "_", "a", "l", "e", "r", "t", "-", "-", "p", "o", "s", "i", "t", "i", "v", "e">>,
    <<"-", "-", "n", "o", "w", "-", "c", "o", "l", "o", "r", "_", "a", "l", "e", "r", "t", "-", "-", "l", "o", "w">> >>

\* `${colorName}-${index}`
ScaleKeyFromOne(colorName, index) == colorName \o <<"-">> \o NumberToString(index + 1)
ScaleKey(colorName, index) == colorName \o <<"-">> \o NumberToString(index)

\* if (baseValue && typeof baseValue === 'string'), for colorName in base o
IsExpanded(o, colorName) == Truthy(Get(o, colorName)) /\ IsString(Get(o, colorName))

\* themeData.base[key] = value for the entries one forEach over names produces
WriteScalesKeepExisting(o, entries) == o \o SelectSeq(entries, LAMBDA e : ~Has(o, e[1]))
WriteScales(o, entries) == PutAll(o, entries)

\* neutralColors.forEach / fourPointColors.forEach over base o, each scale of n
\* points: the writes of all the names, in the order the loops make them.
\* slots lists <<colorName, index>> for every name and index, the names that
\* the if skips are dropped, and each remaining slot is written with its
\* scale value.  The loops are written as their combined result because the
\* names are pairwise distinct and none of them is a `{role}-{index}` key, so
\* no iteration reads what another one wrote.
ExpandRoles(o, names, n) ==
    LET slots == [e \in 1..(Len(names) * n) |->
                     <<names[((e - 1) \div n) + 1], (e - 1) % n>>]
        written == SelectSeq(slots, LAMBDA s : IsExpanded(o, s[1]))
    IN WriteScales(o, [e \in 1..Len(written) |->
           <<ScaleKey(written[e][1], written[e][2]),
             Str(generateColorScale(Get(o, written[e][1]).str, n)[written[e][2] + 1])>>])

\* generateScales(themeData): the heap after the call
generateScalesNeutralOnly(h, themeData) ==
    IF themeData.base = Absent THEN h
    ELSE [h EXCEPT ![themeData.base] = ExpandRoles(h[themeData.base], neutralColors, 22)]
generateScales(h, themeData) ==
    IF themeData.base = Absent THEN h
    ELSE LET afterNeutral == ExpandRoles(h[themeData.base], neutralColors, 22)
             afterFour == ExpandRoles(afterNeutral, fourPointColors, 4)
         IN [h EXCEPT ![themeData.base] = afterFour]

\* generatedCount at the console.log that ends generateScales(themeData) on
\* base o: one for every value the two forEach loops write
generatedCountPerRole(o) ==
    Cardinality({i \in 1..Len(neutralColors) : IsExpanded(o, neutralColors[i])})
    + Cardinality({i \in 1..Len(fourPointColors) : IsExpanded(o, fourPointColors[i])})
generatedCount(o) ==
    LET expanded(names) == {i \in 1..Len(names) : IsExpanded(o, names[i])}
    IN 22 * Cardinality(expanded(neutralColors))
       + 4 * Cardinality(expanded(fourPointColors))

\* what generateScales(themeData) logs: nothing when it returns at the first line
LoggedCount(h, themeData) ==
    IF themeData.base = Absent THEN <<>> ELSE <<generatedCount(h[themeData.base])>>

\* const merged = { base: {}, properties: {} }: two objects that did not exist
NewMergedAliased(h, docs) ==
    IF Len(docs) > 0 /\ docs[1].base # Absent
    THEN [heap |-> h \o <<EmptyObject, EmptyObject>>,
          base |-> docs[1].base, properties |-> Len(h) + 2]
    ELSE [heap |-> h \o <<EmptyObject, EmptyObject>>,
          base |-> Len(h) + 1, properties |-> Len(h) + 2]
NewMerged(h, docs) ==
    [heap |-> h \o <<EmptyObject, EmptyObject>>,
     base |-> Len(h) + 1, properties |-> Len(h) + 2]

\* body of themes.forEach(theme => ...)
MergeThemeFirstWins(h, m, theme) ==
    LET keep(t, s) == ObjectAssign(ObjectAssign(EmptyObject, s), t)
        h1 == IF theme.base # Absent
              THEN [h EXCEPT ![m.base] = keep(h[m.base], h[theme.base])]
              ELSE h
    IN IF theme.properties # Absent
       THEN [h1 EXCEPT ![m.properties] = keep(h1[m.properties], h1[theme.properties])]
       ELSE h1
MergeTheme(h, m, theme) ==
    LET h1 == IF theme.base # Absent
              THEN [h EXCEPT ![m.base] = ObjectAssign(h[m.base], h[theme.base])]
              ELSE h
    IN IF theme.properties # Absent
       THEN [h1 EXCEPT ![m.properties] =
                          ObjectAssign(h1[m.properties], h1[theme.properties])]
       ELSE h1

\* themes.forEach: a theme that is a string, a number or a boolean has no
\* base and no properties and adds nothing
RECURSIVE MergeThemes(_, _, _, _)
MergeThemes(h, m, docs, i) ==
    IF i > Len(docs) THEN h
    ELSE IF ~IsDocument(docs[i]) THEN MergeThemes(h, m, docs, i + 1)
    ELSE MergeThemes(MergeTheme(h, m, docs[i]), m, docs, i + 1)

\* theme.base of a theme that is null or undefined: a TypeError
ReadThrows(theme) == theme = Null \/ theme = Undefined

\* merge(themes): the heap after the call, the returned document and what
\* generateScales logged; threw when a theme is null or undefined (nothing
\* is returned, and the objects merge created are unreachable)
merge(h, docs) ==
    LET m == NewMerged(h, docs)
        doc == [base |-> m.base, properties |-> m.properties]
        h1 == MergeThemes(m.heap, doc, docs, 1)
    IN IF \E i \in 1..Len(docs) : ReadThrows(docs[i])
       THEN [heap |-> h, doc |-> Undefined, logged |-> <<>>, threw |-> TRUE]
       ELSE [heap |-> generateScales(h1, doc), doc |-> doc,
             logged |-> LoggedCount(h1, doc), threw |-> FALSE]

(***************************************************************************)
(* ThemeParser.resolveValue and ThemeParser.validate                       *)
(***************************************************************************)
\* s.startsWith(prefix)
StartsWithFirstOf(s, prefix) == Len(s) >= 1 /\ s[1] = prefix[1]
StartsWith(s, prefix) ==
    Len(s) >= Len(prefix) /\ SubSeq(s, 1, Len(prefix)) = prefix

CustomPropertyPrefix == <<"-", "-">>

\* `var(${value})`
VarOf(s) == <<"v", "a", "r", "(">> \o s \o <<")">>

\* resolveValue(value) on the parser self
resolveValueInlined(self, v) ==
    IF ~IsString(v) THEN v
    ELSE IF StartsWith(v.str, CustomPropertyPrefix)
    THEN (IF Has(self.resolvedVars, v.str) THEN Get(self.resolvedVars, v.str)
          ELSE Str(VarOf(v.str)))
    ELSE v
resolveValue(self, v) ==
    IF ~IsString(v) THEN v
    ELSE IF StartsWith(v.str, CustomPropertyPrefix) THEN Str(VarOf(v.str))
    ELSE v

MsgNotObject == <<"T", "h", "e", "m", "e", " ", "d", "a", "t", "a", " ", "m", "u", "s", "t", " ", "b", "e", " ", "a", "n", " ", "o", "b", "j", "e", "c", "t">>
MsgNoSection == <<"T", "h", "e", "m", "e", " ", "m", "u", "s", "t", " ", "h", "a", "v", "e", " ", "e", "i", "t", "h", "e", "r", " ", "\"", "b", "a", "s", "e", "\"", " ", "o", "r", " ", "\"", "p", "r", "o", "p", "e", "r", "t", "i", "e", "s", "\"", " ", "s", "e", "c", "t", "i", "o", "n">>
\* `Base key "${key}" should start with --`
MsgBaseKey(key) == <<"B", "a", "s", "e", " ", "k", "e", "y", " ", "\"">> \o key \o <<"\"", " ", "s", "h", "o", "u", "l", "d", " ", "s", "t", "a", "r", "t", " ", "w", "i", "t", "h", " ", "-", "-">>
\* `Property key "${key}" should start with --`
MsgPropertyKey(key) == <<"P", "r", "o", "p", "e", "r", "t", "y", " ", "k", "e", "y", " ", "\"">> \o key \o <<"\"", " ", "s", "h", "o", "u", "l", "d", " ", "s", "t", "a", "r", "t", " ", "w", "i", "t", "h", " ", "-", "-">>

\* errors pushed by Object.entries(themeData.base).forEach
BaseKeyErrors(o) ==
    LET bad == SelectSeq(o, LAMBDA e :
                   ~StartsWith(e[1], CustomPropertyPrefix) /\ e[1] # <<"i", "s", "D", "a", "r", "k">>)
    IN [i \in 1..Len(bad) |-> MsgBaseKey(bad[i][1])]

\* errors pushed by Object.entries(themeData.properties).forEach
PropertyKeyErrorsButIsDark(o) ==
    LET bad == SelectSeq(o, LAMBDA e :
                   ~StartsWith(e[1], CustomPropertyPrefix) /\ e[1] # <<"i", "s", "D", "a", "r", "k">>)
    IN [i \in 1..Len(bad) |-> MsgPropertyKey(bad[i][1])]
PropertyKeyErrors(o) ==
    LET bad == SelectSeq(o, LAMBDA e : ~StartsWith(e[1], CustomPropertyPrefix))
    IN [i \in 1..Len(bad) |-> MsgPropertyKey(bad[i][1])]

\* validate(themeData), the objects being those of heap h
validate(h, themeData) ==
    IF ~IsDocument(themeData)
    THEN [valid |-> FALSE, errors |-> <<MsgNotObject>>]
    ELSE LET errors ==
                 (IF themeData.base = Absent /\ themeData.properties = Absent
                  THEN <<MsgNoSection>> ELSE <<>>)
                 \o (IF themeData.base # Absent
                     THEN BaseKeyErrors(h[themeData.base]) ELSE <<>>)
                 \o (IF themeData.properties # Absent
                     THEN PropertyKeyErrors(h[themeData.properties]) ELSE <<>>)
         IN [valid |-> Len(errors) = 0, errors |-> errors]

(***************************************************************************)
(* ThemeParser.parse                                                       *)
(***************************************************************************)
\* the entries forEach visits in themeData.base: all but isDark
EmittedBase(o) == SelectSeq(o, LAMBDA e : e[1] # <<"i", "s", "D", "a", "r", "k">>)

\* `  ${key}: ${value};`
Declaration(key, v) == <<" ", " ">> \o key \o <<":", " ">> \o StringOf(v) \o <<";">>

\* lines.join('\n')
RECURSIVE Join(_)
Join(lines) ==
    IF Len(lines) = 0 THEN <<>>
    ELSE IF Len(lines) = 1 THEN lines[1]
    ELSE lines[1] \o <<"\n">> \o Join(Tail(lines))

\* `:root {\n${cssVars.join('\n')}\n}`
RootRule(cssVars) ==
    <<":", "r", "o", "o", "t", " ", "{", "\n">> \o Join(cssVars) \o <<"\n", "}">>

\* parse(themeData) on the parser self, the objects being those of heap h:
\* the returned text and this.resolvedVars after the call
parse(self, h, themeData) ==
    LET base == IF themeData.base # Absent THEN EmittedBase(h[themeData.base]) ELSE <<>>
        properties == IF themeData.properties # Absent THEN h[themeData.properties]
                      ELSE <<>>
        filled == [resolvedVars |-> PutAll(<<>>, base)]
        cssVars == [i \in 1..Len(base) |-> Declaration(base[i][1], base[i][2])]
                   \o [i \in 1..Len(properties) |->
                          Declaration(properties[i][1],
                                      resolveValue(filled, properties[i][2]))]
    IN [text |-> RootRule(cssVars), resolvedVars |-> filled.resolvedVars]

(***************************************************************************)
(* ServiceNowThemeLoader                                                   *)
(*                                                                         *)
(* A path is the sequence of its segments: themes/polaris/typography.json  *)
(* is <<"themes", "polaris", "typography.json">>.  A fetched document is   *)
(* the server's object itself: response.json() builds a new object on      *)
(* every fetch, but no operation of the loader or the parser writes to a   *)
(* loaded document, so the copies are indistinguishable from the original. *)
(***************************************************************************)
\* options.basePath || ''
basePath == <<>>

\* const fullPath = this.basePath + themePath
FullPath(themePath) == basePath \o themePath

\* the three paths loadTheme(themeName, variant) hands to loadThemeSet
ThemePathsSharedFirst(themeName, variant) ==
    << <<"themes", themeName, "shape-and-form.json">>,
       <<"themes", themeName, "typography.json">>,
       <<"themes", themeName, "variants", variant, "colors.json">> >>
ThemePaths(themeName, variant) ==
    << <<"themes", themeName, "variants", variant, "colors.json">>,
       <<"themes", themeName, "shape-and-form.json">>,
       <<"themes", themeName, "typography.json">> >>

\* the promise loadSingleTheme returned for one path
\* beforeClear is history kept for the analysis, not program state: the fetch
\* behind the slot, or behind the cache entry that answered it, was issued
\* before a clearCache() that has run since
Pending == [state |-> "pending", beforeClear |-> FALSE]
Fulfilled(doc) == [state |-> "fulfilled", doc |-> doc, beforeClear |-> FALSE]
Rejected == [state |-> "rejected", beforeClear |-> FALSE]

\* if (this.preloadedThemes[themePath]): a truthiness test of the stored value
IsPreloaded(pre, themePath) ==
    themePath \in DOMAIN pre /\ (IsDocument(pre[themePath]) \/ Truthy(pre[themePath]))

\* return this.cache.get(fullPath)
FromCache(entry) ==
    [state |-> "fulfilled", doc |-> entry.doc, beforeClear |-> entry.beforeClear]

\* loadSingleTheme(themePath) up to its first await: a preloaded document, a
\* cached document, or a fetch that is now in flight
StartLoad(pre, useCache, cached, themePath) ==
    IF IsPreloaded(pre, themePath) THEN Fulfilled(pre[themePath])
    ELSE IF useCache /\ FullPath(themePath) \in DOMAIN cached
    THEN FromCache(cached[FullPath(themePath)])
    ELSE Pending

\* if (!validation.valid) console.warn(..., validation.errors)
ValidationWarning(h, themePath, doc) ==
    IF validate(h, doc).valid THEN <<>> ELSE << <<themePath, validate(h, doc).errors>> >>

\* the warnings of the preloaded documents among themePaths, which
\* themePaths.map(path => this.loadSingleTheme(path)) validates in order
PreloadedWarnings(h, pre, themePaths) ==
    LET invalid == SelectSeq(themePaths,
                             LAMBDA path : IsPreloaded(pre, path) /\ ~validate(h, pre[path]).valid)
    IN [i \in 1..Len(invalid) |-> <<invalid[i], validate(h, pre[invalid[i]]).errors>>]

\* the end of loadSingleTheme after a fetch: the promise it settles with
FetchedSlot(response) == IF response.ok THEN Fulfilled(response.json) ELSE Rejected

\* this.cache.set(fullPath, themeData), for the fetch of the given slot
CacheSet(cached, fullPath, doc, slot) ==
    [k \in DOMAIN cached \cup {fullPath} |->
        IF k = fullPath THEN [doc |-> doc, beforeClear |-> slot.beforeClear] ELSE cached[k]]

\* the calls after clearCache(): the fetches in flight are now older than
\* the last clearing of the cache
MarkInFlight(cs) ==
    [c \in 1..Len(cs) |->
        [cs[c] EXCEPT !.slots = [i \in 1..Len(cs[c].slots) |->
            IF cs[c].slots[i].state = "pending"
            THEN [cs[c].slots[i] EXCEPT !.beforeClear = TRUE]
            ELSE cs[c].slots[i]]]]

\* the setProperty calls of applyTheme(themeData), in order: <<key, value>>
SetPropertyCallsWithIsDark(h, themeData) ==
    LET base == IF themeData.base # Absent THEN h[themeData.base] ELSE <<>>
        properties == IF themeData.properties # Absent THEN h[themeData.properties]
                      ELSE <<>>
    IN base \o [i \in 1..Len(properties) |->
                  <<properties[i][1],
                    IF IsString(properties[i][2])
                       /\ StartsWith(properties[i][2].str, CustomPropertyPrefix)
                    THEN Str(VarOf(properties[i][2].str))
                    ELSE properties[i][2]>>]
SetPropertyCalls(h, themeData) ==
    LET base == IF themeData.base # Absent THEN EmittedBase(h[themeData.base]) ELSE <<>>
        properties == IF themeData.properties # Absent THEN h[themeData.properties]
                      ELSE <<>>
    IN base \o [i \in 1..Len(properties) |->
                  <<properties[i][1],
                    IF IsString(properties[i][2])
                       /\ StartsWith(properties[i][2].str, CustomPropertyPrefix)
                    THEN Str(VarOf(properties[i][2].str))
                    ELSE properties[i][2]>>]

\* root.style after the setProperty calls, as CSSOM defines setProperty: a
\* name that is neither a custom property nor a CSS property is ignored, the
\* value is converted to a string (null to the empty string), the empty
\* string removes the property, and the last call for a name decides
StyleAfterReplaced(st, setCalls) ==
    LET custom == SelectSeq(setCalls, LAMBDA c : StartsWith(c[1], CustomPropertyPrefix))
        names == {custom[i][1] : i \in 1..Len(custom)}
        last(k) == CHOOSE i \in 1..Len(custom) :
                       custom[i][1] = k /\ \A j \in (i + 1)..Len(custom) : custom[j][1] # k
        text(k) == IF custom[last(k)][2] = Null THEN <<>>
                   ELSE StringOf(custom[last(k)][2])
    IN [k \in {n \in names : text(n) # <<>>} |-> text(k)]
StyleAfter(st, setCalls) ==
    LET custom == SelectSeq(setCalls, LAMBDA c : StartsWith(c[1], CustomPropertyPrefix))
        names == {custom[i][1] : i \in 1..Len(custom)}
        last(k) == CHOOSE i \in 1..Len(custom) :
                       custom[i][1] = k /\ \A j \in (i + 1)..Len(custom) : custom[j][1] # k
        text(k) == IF custom[last(k)][2] = Null THEN <<>>
                   ELSE StringOf(custom[last(k)][2])
        removed == {k \in names : text(k) = <<>>}
    IN [k \in (DOMAIN st \cup names) \ removed |->
           IF k \in names THEN text(k) ELSE st[k]]

\* the array Promise.all(promises) is fulfilled with: the values of the
\* promises in the order of the promises
PromiseAllReversed(promises) ==
    [i \in 1..Len(promises) |-> promises[Len(promises) + 1 - i].doc]
PromiseAll(promises) == [i \in 1..Len(promises) |-> promises[i].doc]

\* what the call assigns to this.activeTheme: themePaths, an array of paths,
\* in loadThemeSet and themePath, one path, in loadAndApply
ActiveThemeOf(call) ==
    IF call.method = "loadThemeSet" THEN [paths |-> call.paths]
    ELSE [path |-> call.paths[1]]

\* the await of loadThemeSet / loadAndApply throws, or merge or applyTheme
\* does: the async function ends there, its promise is rejected, and the
\* statements after the throw are not run
ThrownAfterActiveTheme(call, h, st, active) ==
    [call |-> [call EXCEPT !.status = "rejected"],
     heap |-> h, style |-> st, activeTheme |-> ActiveThemeOf(call), logged |-> <<>>]
Thrown(call, h, st, active) ==
    [call |-> [call EXCEPT !.status = "rejected"],
     heap |-> h, style |-> st, activeTheme |-> active, logged |-> <<>>]

\* the rest of loadThemeSet / loadAndApply once every loadSingleTheme promise
\* has settled or one has rejected: what becomes of the call, the heap, the
\* style and activeTheme
Continue(call, h, st, active) ==
    LET docs == PromiseAll(call.slots)
        res == merge(h, docs)
        failed == Thrown(call, h, st, active)
    IN IF \E i \in 1..Len(call.slots) : call.slots[i].state = "rejected"
       THEN failed
       ELSE IF call.method = "loadThemeSet"
       THEN IF res.threw THEN failed
            ELSE [call |-> [call EXCEPT !.status = "resolved", !.result = res.doc,
                                        !.applied = SetPropertyCalls(res.heap, res.doc)],
                  heap |-> res.heap,
                  style |-> StyleAfter(st, SetPropertyCalls(res.heap, res.doc)),
                  activeTheme |-> ActiveThemeOf(call),
                  logged |-> res.logged]
       ELSE \* loadAndApply: applyTheme(themeData), this.activeTheme = themePath
            IF ReadThrows(docs[1]) THEN failed
            ELSE LET setCalls == IF IsDocument(docs[1]) THEN SetPropertyCalls(h, docs[1])
                                 ELSE <<>>
                 IN [call |-> [call EXCEPT !.status = "resolved", !.result = docs[1],
                                           !.applied = setCalls],
                     heap |-> h,
                     style |-> StyleAfter(st, setCalls),
                     activeTheme |-> ActiveThemeOf(call),
                     logged |-> <<>>]

\* every promise of the call has settled, or one has rejected: Promise.all
\* has settled and the rest of the async function is due
Settled(call) ==
    \/ \E i \in 1..Len(call.slots) : call.slots[i].state = "rejected"
    \/ \A i \in 1..Len(call.slots) : call.slots[i].state = "fulfilled"

(***************************************************************************)
(* example.js: parseThemeStructure, the theme-switcher element, withThemes *)
(***************************************************************************)
\* the last segments of the paths that end in .json
JsonFiles == {"colors.json", "shape-and-form.json", "typography.json"}

\* the variant names other than light and dark, in localeCompare order
OtherVariants == <<"contrast", "dim">>

\* path.match(/themes\/([^/]+)\/variants\/([^/]+)\//): where the pattern
\* matches in the segments of path
VariantMatch(path) ==
    {i \in 1..Len(path) : i + 4 <= Len(path) /\ path[i] = "themes" /\ path[i + 2] = "variants"}

\* path.match(/themes\/([^/]+)\/([^/]+\.json)$/)
SharedMatch(path) ==
    Len(path) >= 3 /\ path[Len(path) - 2] = "themes" /\ path[Len(path)] \in JsonFiles

\* if (!themes[themeName]) themes[themeName] = { variants: [], files: {} }
AddTheme(ts, themeName) ==
    IF \E i \in 1..Len(ts) : ts[i].name = themeName THEN ts
    ELSE Append(ts, [name |-> themeName, variants |-> <<>>])

\* if (!themes[themeName].variants.includes(variant)) ...variants.push(variant)
AddVariant(ts, themeName, variant) ==
    [i \in 1..Len(ts) |->
        IF ts[i].name = themeName
           /\ \A j \in 1..Len(ts[i].variants) : ts[i].variants[j] # variant
        THEN [ts[i] EXCEPT !.variants = Append(@, variant)]
        ELSE ts[i]]

\* the body of Object.keys(preloadedThemes).forEach for one path
AddPath(ts, path) ==
    LET first == CHOOSE i \in VariantMatch(path) : \A j \in VariantMatch(path) : i <= j
        withVariant == IF VariantMatch(path) # {}
                       THEN AddVariant(AddTheme(ts, path[first + 1]),
                                       path[first + 1], path[first + 3])
                       ELSE ts
    IN IF SharedMatch(path) THEN AddTheme(withVariant, path[Len(path) - 1])
       ELSE withVariant

\* the comparator of theme.variants.sort: light, then dark, then the others
\* by localeCompare
VariantRank(variant) ==
    IF variant = "light" THEN 0
    ELSE IF variant = "dark" THEN 1
    ELSE 1 + (CHOOSE i \in 1..Len(OtherVariants) : OtherVariants[i] = variant)

SortVariants(variants) ==
    LET ranked(r) == SelectSeq(variants, LAMBDA v : VariantRank(v) = r)
    IN ranked(0) \o ranked(1) \o ranked(2) \o ranked(3)

\* parseThemeStructure(preloadedThemes).themes for the keys of
\* preloadedThemes in their order: the themes in the order they were added,
\* each with its variants
RECURSIVE AddPaths(_, _)
AddPaths(ts, keys) ==
    IF keys = <<>> THEN ts ELSE AddPaths(AddPath(ts, Head(keys)), Tail(keys))

parseThemeStructure(keys) ==
    LET ts == AddPaths(<<>>, keys)
    IN [i \in 1..Len(ts) |-> [ts[i] EXCEPT !.variants = SortVariants(@)]]

\* themes[themeName], and themes[themeName].variants
HasTheme(ts, themeName) == \E i \in 1..Len(ts) : ts[i].name = themeName
VariantsOf(ts, themeName) ==
    ts[CHOOSE i \in 1..Len(ts) : ts[i].name = themeName].variants
Includes(seq, x) == \E i \in 1..Len(seq) : seq[i] = x

\* withThemes up to the creation of the loader: a property that is absent
\* from options is "" here, which || treats as it treats undefined
DefaultTheme(ts, options) ==
    IF options.defaultTheme # "" THEN options.defaultTheme ELSE ts[1].name

DefaultVariant(ts, options) ==
    IF options.defaultVariant # "" THEN options.defaultVariant
    ELSE LET variants == VariantsOf(ts, DefaultTheme(ts, options))
         IN IF Includes(variants, "light") THEN "light"
            ELSE IF variants # <<>> THEN variants[1]
            ELSE ""

\* what withThemes does before it loads anything: returns null after a
\* warning or an error, throws, or goes on to load the default theme
Decide(ts, options) ==
    IF ts = <<>>
    THEN [outcome |-> "null", logged |-> <<"No themes detected in preloadedThemes">>]
    ELSE IF options.defaultVariant = "" /\ ~HasTheme(ts, DefaultTheme(ts, options))
    THEN [outcome |-> "threw", logged |-> <<>>]
    ELSE IF ~HasTheme(ts, DefaultTheme(ts, options))
    THEN [outcome |-> "null", logged |-> <<"Default theme not found in preloaded themes">>]
    ELSE IF ~Includes(VariantsOf(ts, DefaultTheme(ts, options)), DefaultVariant(ts, options))
    THEN [outcome |-> "null", logged |-> <<"Variant not found for theme">>]
    ELSE [outcome |-> "load", logged |-> <<>>]

\* who awaits a call: the page itself, withThemes, or handleThemeChange of
\* the switcher for a selected theme and variant
Direct == [kind |-> "direct", themeName |-> "", variant |-> ""]
ByWithThemes(themeName, variant) ==
    [kind |-> "withThemes", themeName |-> themeName, variant |-> variant]
BySwitcher(themeName, variant) ==
    [kind |-> "switcher", themeName |-> themeName, variant |-> variant]

\* no theme-switcher element in the document
NoSwitcher == [injected |-> FALSE, currentTheme |-> "", currentVariant |-> ""]

NoOptions ==
    [defaultTheme |-> "", defaultVariant |-> "", showSwitcher |-> TRUE, callback |-> FALSE]

\* a page on which withThemes is not used
NoPage ==
    [keys |-> <<>>, bundle |-> <<>>, setup |-> "none", options |-> NoOptions,
     themes |-> <<>>, switcher |-> NoSwitcher, invoked |-> FALSE, events |-> <<>>,
     errors |-> <<>>, selections |-> 0]

\* withThemes after `await loader.loadTheme(defaultTheme, defaultVariant)`:
\* the switcher is created and appended, the callback is called; or the
\* error is logged and thrown again
AfterDefaultThemeCallbackAlways(pg, call) ==
    IF call.status = "resolved"
    THEN [pg EXCEPT !.switcher = IF pg.options.showSwitcher
                                 THEN [injected |-> TRUE,
                                       currentTheme |-> call.by.themeName,
                                       currentVariant |-> call.by.variant]
                                 ELSE @,
                    !.invoked = pg.options.callback,
                    !.setup = IF pg.options.callback THEN "callback" ELSE "returned"]
    ELSE [pg EXCEPT !.errors = Append(@, "Failed to load default theme:"),
                    !.invoked = pg.options.callback,
                    !.setup = "rejected"]
AfterDefaultTheme(pg, call) ==
    IF call.status = "resolved"
    THEN [pg EXCEPT !.switcher = IF pg.options.showSwitcher
                                 THEN [injected |-> TRUE,
                                       currentTheme |-> call.by.themeName,
                                       currentVariant |-> call.by.variant]
                                 ELSE @,
                    !.invoked = pg.options.callback,
                    !.setup = IF pg.options.callback THEN "callback" ELSE "returned"]
    ELSE [pg EXCEPT !.errors = Append(@, "Failed to load default theme:"),
                    !.setup = "rejected"]

\* handleThemeChange after `await this._loader.loadTheme(themeName, variant)`:
\* the current theme is set and theme-changed is dispatched; or the error is
\* logged and not thrown again
AfterThemeChangeEventAlways(pg, call) ==
    IF call.status = "resolved"
    THEN [pg EXCEPT !.switcher.currentTheme = call.by.themeName,
                    !.switcher.currentVariant = call.by.variant,
                    !.events = Append(@, [themeName |-> call.by.themeName,
                                          variant |-> call.by.variant])]
    ELSE [pg EXCEPT !.errors = Append(@, "Failed to switch theme:"),
                    !.events = Append(@, [themeName |-> call.by.themeName,
                                          variant |-> call.by.variant])]
AfterThemeChange(pg, call) ==
    IF call.status = "resolved"
    THEN [pg EXCEPT !.switcher.currentTheme = call.by.themeName,
                    !.switcher.currentVariant = call.by.variant,
                    !.events = Append(@, [themeName |-> call.by.themeName,
                                          variant |-> call.by.variant])]
    ELSE [pg EXCEPT !.errors = Append(@, "Failed to switch theme:")]

\* the page after the call has resolved or rejected: what the function that
\* awaits it does next
PageAfter(pg, call) ==
    IF call.by.kind = "withThemes" THEN AfterDefaultTheme(pg, call)
    ELSE IF call.by.kind = "switcher" THEN AfterThemeChange(pg, call)
    ELSE pg

(***************************************************************************)
(* Theme documents handed to merge                                         *)
(***************************************************************************)
\* longest array of documents handed to merge
MaxThemes == 3

KeyPrimary == <<"-", "-", "n", "o", "w", "-", "c", "o", "l", "o", "r", "-", "-", "p", "r", "i", "m", "a", "r", "y">>
KeyPrimary0 == <<"-", "-", "n", "o", "w", "-", "c", "o", "l", "o", "r", "-", "-", "p", "r", "i", "m", "a", "r", "y", "-", "0">>
KeyNeutral == <<"-", "-", "n", "o", "w", "-", "c", "o", "l", "o", "r", "-", "-", "n", "e", "u", "t", "r", "a", "l">>
KeyIsDark == <<"i", "s", "D", "a", "r", "k">>
KeyFontSize == <<"-", "-", "n", "o", "w", "-", "f", "o", "n", "t", "-", "s", "i", "z", "e", "-", "-", "m", "d">>
KeyBackground == <<"-", "-", "n", "o", "w", "-", "c", "o", "l", "o", "r", "_", "b", "a", "c", "k", "g", "r", "o", "u", "n", "d", "-", "-", "p", "r", "i", "m", "a", "r", "y">>
KeySpacing == <<"-", "-", "n", "o", "w", "-", "s", "p", "a", "c", "i", "n", "g", "-", "-", "m", "d">>
ColorA == <<"6", "1", ",", "7", "4", ",", "8", "0">>
ColorB == <<"1", "0", ",", "2", "0", ",", "3", "0">>
ColorN == <<"1", "2", "8", ",", "1", "2", "8", ",", "1", "2", "8">>
Literal0 == <<"1", ",", "2", ",", "3">>
Px16 == <<"1", "6", "p", "x">>
Px14 == <<"1", "4", "p", "x">>
Px12 == <<"1", "2", "p", "x">>
RefNeutral0 == <<"-", "-", "n", "o", "w", "-", "c", "o", "l", "o", "r", "-", "-", "n", "e", "u", "t", "r", "a", "l", "-", "0">>
Px8 == <<"8", "p", "x">>
C3Spec0 == <<"1", "4", "4", ",", "1", "5", "2", ",", "1", "5", "5">>
C3Code0 == <<"1", "1", "0", ",", "1", "1", "9", ",", "1", "2", "4">>
C3E2 == <<"4", "9", ",", "5", "9", ",", "6", "4">>
C3E3 == <<"4", "0", ",", "4", "8", ",", "5", "2">>
\* the objects of the documents below, in heap order
PoolObjects == <<
    << <<KeyPrimary, Str(ColorA)>> >>,
    << <<KeyPrimary, Str(ColorB)>>, <<KeyFontSize, Str(Px14)>> >>,
    << <<KeySpacing, Str(Px16)>> >>,
    << <<KeyPrimary, Num(5)>> >>,
    << <<KeyPrimary0, Str(Literal0)>>, <<KeyFontSize, Str(Px12)>> >>,
    << <<KeyBackground, Str(RefNeutral0)>>, <<KeySpacing, Str(Px8)>> >>,
    << <<KeyNeutral, Str(ColorN)>>, <<KeyIsDark, Bool(TRUE)>> >>,
    << <<KeyPrimary, Str(<<>>)>> >>,
    << >> >>

\* the documents: { base, properties }, each a reference or Absent
Pool == <<
    [base |-> 1, properties |-> Absent],
    [base |-> 2, properties |-> 3],
    [base |-> 4, properties |-> Absent],
    [base |-> 5, properties |-> Absent],
    [base |-> Absent, properties |-> 6],
    [base |-> 7, properties |-> Absent],
    [base |-> 8, properties |-> 9],
    [base |-> Absent, properties |-> Absent] >>

PoolDocs == {Pool[i] : i \in 1..Len(Pool)}

(***************************************************************************)
(* Specification SpecScale: one call of generateColorScale                 *)
(***************************************************************************)
ChannelSample == {c \in 0..ChannelMax : c % SampleStep = 0}

\* colours with at most one channel outside the sample, and the example colour
ScaleInputs ==
    {ExampleColor}
    \cup (0..ChannelMax) \X ChannelSample \X ChannelSample
    \cup ChannelSample \X (0..ChannelMax) \X ChannelSample
    \cup ChannelSample \X ChannelSample \X (0..ChannelMax)

MergeIdle ==
    /\ heap = <<>>
    /\ themes = <<>>
    /\ merged = <<>>
    /\ folded = <<>>
    /\ foldNext = 0
    /\ generated = <<>>

CallIdle ==
    /\ value = Undefined
    /\ returned = <<>>

\* no loader has been constructed
LoaderIdle ==
    /\ enableCache = TRUE
    /\ preloadedThemes = <<>>
    /\ server = <<>>
    /\ cache = <<>>
    /\ activeTheme = Null
    /\ style = <<>>
    /\ calls = <<>>
    /\ warned = <<>>
    /\ page = NoPage

\* constructor(): this.resolvedVars = new Map()
NewParser ==
    /\ resolvedVars = <<>>
    /\ history = <<>>

InitScale ==
    /\ op = "generateColorScale"
    /\ pc = "call"
    /\ rgb \in ScaleInputs
    /\ baseColor = Triple(rgb[1], rgb[2], rgb[3])
    /\ points \in {4, 22}
    /\ scale = <<>>
    /\ MergeIdle
    /\ CallIdle
    /\ NewParser
    /\ LoaderIdle

GenerateColorScale ==
    /\ op = "generateColorScale"
    /\ pc = "call"
    /\ scale' = generateColorScale(baseColor, points)
    /\ pc' = "done"
    /\ UNCHANGED <<op, rgb, baseColor, points>>
    /\ UNCHANGED <<mergeVars, generated, callVars, parserVars, loaderVars>>

NextScale == GenerateColorScale

SpecScale == InitScale /\ [][NextScale]_vars

(***************************************************************************)
(* Specification SpecMerge: merge(themes), and the same documents folded   *)
(* pairwise from the left: merge([merge([A, B]), C])                       *)
(***************************************************************************)
ScaleIdle ==
    /\ pc = "idle"
    /\ rgb = <<0, 0, 0>>
    /\ baseColor = <<>>
    /\ points = 0
    /\ scale = <<>>

InitMerge ==
    /\ op = "merge"
    /\ ScaleIdle
    /\ heap = PoolObjects
    /\ themes \in UNION {[1..n -> PoolDocs] : n \in 0..MaxThemes}
    /\ merged = <<>>
    /\ folded = <<>>
    /\ foldNext = 1
    /\ generated = <<>>
    /\ CallIdle
    /\ NewParser
    /\ LoaderIdle

\* merged = parser.merge(themes)
Merge ==
    /\ op = "merge"
    /\ merged = <<>>
    /\ LET res == merge(heap, themes)
       IN /\ heap' = res.heap
          /\ merged' = <<res.doc>>
          /\ generated' = generated \o res.logged
    /\ UNCHANGED <<op, themes, folded, foldNext>>
    /\ UNCHANGED <<scaleVars, callVars, parserVars, loaderVars>>

\* folded = parser.merge(themes.slice(0, 2)), called after merge(themes)
FoldFirst ==
    /\ op = "merge"
    /\ merged # <<>>
    /\ folded = <<>>
    /\ LET n == IF Len(themes) < 2 THEN Len(themes) ELSE 2
           res == merge(heap, SubSeq(themes, 1, n))
       IN /\ heap' = res.heap
          /\ folded' = <<res.doc>>
          /\ foldNext' = n + 1
          /\ generated' = generated \o res.logged
    /\ UNCHANGED <<op, themes, merged>>
    /\ UNCHANGED <<scaleVars, callVars, parserVars, loaderVars>>

\* folded = parser.merge([folded, themes[foldNext]])
FoldStep ==
    /\ op = "merge"
    /\ folded # <<>>
    /\ foldNext <= Len(themes)
    /\ LET res == merge(heap, <<folded[1], themes[foldNext]>>)
       IN /\ heap' = res.heap
          /\ folded' = <<res.doc>>
          /\ foldNext' = foldNext + 1
          /\ generated' = generated \o res.logged
    /\ UNCHANGED <<op, themes, merged>>
    /\ UNCHANGED <<scaleVars, callVars, parserVars, loaderVars>>

NextMerge == Merge \/ FoldFirst \/ FoldStep

SpecMerge == InitMerge /\ [][NextMerge]_vars

(***************************************************************************)
(* Specification SpecScales: one call of generateScales(themeData)         *)
(***************************************************************************)
KeySecondary == <<"-", "-", "n", "o", "w", "-", "c", "o", "l", "o", "r", "-", "-", "s", "e", "c", "o", "n", "d", "a", "r", "y">>
KeyBrand == <<"-", "-", "n", "o", "w", "-", "c", "o", "l", "o", "r", "-", "-", "b", "r", "a", "n", "d">>
TwoChannels == <<"1", ",", "2">>
FourChannels == <<"1", ",", "2", ",", "3", ",", "4">>
NotNumeric == <<"a", "b", ",", "1", ",", "2">>

\* what a base may hold under each key; Undefined stands for a key the base
\* does not have
NeutralValues == {Undefined, Str(ColorN), Str(<<>>), Str(TwoChannels)}
PrimaryValues ==
    {Undefined, Str(ColorA), Num(5), Str(<<>>), Str(TwoChannels), Str(FourChannels),
     Str(NotNumeric)}
SecondaryValues == {Undefined, Str(ColorB)}
IsDarkValues == {Undefined, Bool(TRUE)}
BrandValues == {Undefined, Str(ColorB)}
Primary0Values == {Undefined, Str(Literal0)}

\* the base object with the given values, keys in this order
BaseObject(neutral, primary, secondary, isDark, brand, primary0) ==
    SelectSeq(<< <<KeyNeutral, neutral>>, <<KeyPrimary, primary>>,
                 <<KeySecondary, secondary>>, <<KeyIsDark, isDark>>,
                 <<KeyBrand, brand>>, <<KeyPrimary0, primary0>> >>,
              LAMBDA e : e[2] # Undefined)

BaseObjects ==
    {BaseObject(n, p, s, d, b, z) :
        n \in NeutralValues, p \in PrimaryValues, s \in SecondaryValues,
        d \in IsDarkValues, b \in BrandValues, z \in Primary0Values}

InitScales ==
    /\ op = "generateScales"
    /\ ScaleIdle
    /\ \/ /\ heap \in {<<o>> : o \in BaseObjects}
          /\ themes = << [base |-> 1, properties |-> Absent] >>
       \/ /\ heap = <<>>
          /\ themes = << [base |-> Absent, properties |-> Absent] >>
    /\ merged = <<>>
    /\ folded = <<>>
    /\ foldNext = 0
    /\ generated = <<>>
    /\ CallIdle
    /\ NewParser
    /\ LoaderIdle

\* parser.generateScales(themes[0])
GenerateScales ==
    /\ op = "generateScales"
    /\ returned = <<>>
    /\ heap' = generateScales(heap, themes[1])
    /\ generated' = generated \o LoggedCount(heap, themes[1])
    /\ returned' = <<Undefined>>
    /\ UNCHANGED <<op, themes, merged, folded, foldNext, value>>
    /\ UNCHANGED <<scaleVars, parserVars, loaderVars>>

NextScales == GenerateScales

SpecScales == InitScales /\ [][NextScales]_vars

(***************************************************************************)
(* Specification SpecResolve: one call of resolveValue(value)              *)
(***************************************************************************)
\* longest string of the alphabet below handed to resolveValue
MaxLen == 4

ResolveAlphabet == {"-", "a", "("}

ResolveStrings == UNION {[1..n -> ResolveAlphabet] : n \in 0..MaxLen}

ResolveInputs ==
    {Str(t) : t \in ResolveStrings}
    \cup {Str(RefNeutral0), Str(Px16), Num(42), Num(0), Bool(TRUE), Bool(FALSE),
          Null, Undefined}

\* this.resolvedVars after parse({ base: { "--now-color--neutral-0": "255,255,255" } })
ResolvedBefore ==
    parse([resolvedVars |-> <<>>],
          << << <<RefNeutral0, Str(<<"2", "5", "5", ",", "2", "5", "5", ",", "2", "5", "5">>)>> >> >>,
          [base |-> 1, properties |-> Absent]).resolvedVars

\* the parser is new, or has parsed a theme that defines the referenced token
InitResolve ==
    /\ op = "resolveValue"
    /\ ScaleIdle
    /\ MergeIdle
    /\ value \in ResolveInputs
    /\ returned = <<>>
    /\ resolvedVars \in {<<>>, ResolvedBefore}
    /\ history = <<>>
    /\ LoaderIdle

\* returned = parser.resolveValue(value)
ResolveValue ==
    /\ op = "resolveValue"
    /\ returned = <<>>
    /\ returned' = <<resolveValue([resolvedVars |-> resolvedVars], value)>>
    /\ UNCHANGED <<op, value>>
    /\ UNCHANGED <<scaleVars, mergeVars, generated, parserVars, loaderVars>>

NextResolve == ResolveValue

SpecResolve == InitResolve /\ [][NextResolve]_vars

(***************************************************************************)
(* Specification SpecValidate: one call of validate(themeData)             *)
(***************************************************************************)
KeyOk == <<"-", "-", "o", "k">>
KeyBad == <<"b", "a", "d">>
KeyOneDash == <<"-", "o", "k">>
\* the objects a section of the validated document may be
SectionObjects == <<
    << >>,
    << <<KeyOk, Str(Literal0)>> >>,
    << <<KeyBad, Str(Literal0)>> >>,
    << <<KeyIsDark, Bool(TRUE)>> >>,
    << <<KeyBad, Str(Literal0)>>, <<KeyOk, Str(Literal0)>>, <<KeyOneDash, Str(Px16)>>,
       <<KeyIsDark, Bool(FALSE)>> >>,
    << <<<<>>, Str(Px8)>>, <<CustomPropertyPrefix, Str(Px8)>> >>,
    << <<KeyPrimary, Str(ColorA)>>, <<KeySpacing, Str(Px16)>> >> >>

ValidateInputs ==
    {[base |-> b, properties |-> q] :
        b \in {Absent} \cup (1..Len(SectionObjects)),
        q \in {Absent} \cup (1..Len(SectionObjects))}
    \cup {Null, Undefined, Str(ColorA), Str(<<>>), Num(5), Bool(TRUE)}

InitValidate ==
    /\ op = "validate"
    /\ ScaleIdle
    /\ heap = SectionObjects
    /\ themes = <<>>
    /\ merged = <<>>
    /\ folded = <<>>
    /\ foldNext = 0
    /\ generated = <<>>
    /\ value \in ValidateInputs
    /\ returned = <<>>
    /\ NewParser
    /\ LoaderIdle

\* returned = parser.validate(value)
Validate ==
    /\ op = "validate"
    /\ returned = <<>>
    /\ returned' = <<validate(heap, value)>>
    /\ UNCHANGED <<op, value>>
    /\ UNCHANGED <<scaleVars, mergeVars, generated, parserVars, loaderVars>>

NextValidate == Validate

SpecValidate == InitValidate /\ [][NextValidate]_vars

(***************************************************************************)
(* Specification SpecParser: a sequence of calls on one ThemeParser        *)
(***************************************************************************)
\* number of calls made on the parser
MaxHistory == 3

\* the arguments tried for each method
ColorScaleCalls == {<<ColorA, 4>>, <<ColorA, 22>>}
MergeCalls == {<<Pool[1]>>, <<Pool[2], Pool[5]>>}
ParseCalls == {Pool[1], Pool[2], Pool[5]}
ResolveCalls == {Str(KeyPrimary), Str(KeySpacing), Str(Px16)}
ValidateCalls == {Pool[1], Pool[8]}

InitParser ==
    /\ op = "parser"
    /\ ScaleIdle
    /\ heap = PoolObjects
    /\ themes = <<>>
    /\ merged = <<>>
    /\ folded = <<>>
    /\ foldNext = 0
    /\ generated = <<>>
    /\ CallIdle
    /\ NewParser
    /\ LoaderIdle

\* a call that leaves this.resolvedVars alone
Called(method, args, result) ==
    /\ op = "parser"
    /\ Len(history) < MaxHistory
    /\ history' = Append(history, [method |-> method, args |-> args, result |-> result])
    /\ returned' = <<result>>
    /\ UNCHANGED <<op, value, heap, themes, merged, folded, foldNext, generated>>
    /\ UNCHANGED <<scaleVars, loaderVars>>

CallGenerateColorScale ==
    \E c \in ColorScaleCalls :
        /\ Called("generateColorScale", c, generateColorScale(c[1], c[2]))
        /\ UNCHANGED resolvedVars

\* the returned document by value: the objects merge creates are its own
CallMerge ==
    \E docs \in MergeCalls :
        LET res == merge(heap, docs)
        IN /\ Called("merge", docs, [base |-> res.heap[res.doc.base],
                                     properties |-> res.heap[res.doc.properties]])
           /\ UNCHANGED resolvedVars

CallParse ==
    \E doc \in ParseCalls :
        LET res == parse([resolvedVars |-> resolvedVars], heap, doc)
        IN /\ Called("parse", doc, res.text)
           /\ resolvedVars' = res.resolvedVars

CallResolveValue ==
    \E v \in ResolveCalls :
        /\ Called("resolveValue", v, resolveValue([resolvedVars |-> resolvedVars], v))
        /\ UNCHANGED resolvedVars

CallValidate ==
    \E doc \in ValidateCalls :
        /\ Called("validate", doc, validate(heap, doc))
        /\ UNCHANGED resolvedVars

NextParser ==
    \/ CallGenerateColorScale
    \/ CallMerge
    \/ CallParse
    \/ CallResolveValue
    \/ CallValidate

SpecParser == InitParser /\ [][NextParser]_vars

(***************************************************************************)
(* Specification SpecLoader: one ServiceNowThemeLoader, its calls and the  *)
(* completions of the fetches they start                                   *)
(***************************************************************************)
\* number of loadTheme / loadThemeSet / loadAndApply calls made
MaxCalls == 2

\* number of fetches in flight at one time
MaxInFlight == 3

KeyWeight == <<"-", "-", "n", "o", "w", "-", "f", "o", "n", "t", "-", "w", "e", "i", "g", "h", "t", "-", "-", "r", "e", "g", "u", "l", "a", "r">>
Px18 == <<"1", "8", "p", "x">>

\* the objects of the documents the server and the preloaded map hold
LoaderObjects == <<
    << <<KeyPrimary, Str(ColorA)>>, <<KeyIsDark, Bool(FALSE)>>,
       <<KeyPrimary0, Str(Literal0)>> >>,
    << <<KeyBackground, Str(RefNeutral0)>>, <<KeySpacing, Str(Px8)>>,
       <<KeyFontSize, Str(Px12)>> >>,
    << <<KeyPrimary, Str(ColorB)>>, <<KeyIsDark, Bool(TRUE)>> >>,
    << <<KeySpacing, Str(Px16)>>, <<KeyFontSize, Str(Px14)>>, <<KeyWeight, Num(400)>> >>,
    << <<KeyFontSize, Str(Px18)>> >>,
    << <<KeyBackground, Str(ColorB)>>, <<KeyPrimary0, Str(ColorB)>> >>,
    << <<KeyBad, Str(Literal0)>> >>,
    << <<KeyBad, Str(ColorB)>>, <<KeyFontSize, Str(<<>>)>> >> >>

DocLight == [base |-> 1, properties |-> 2]
DocDark == [base |-> 3, properties |-> Absent]
DocShape == [base |-> Absent, properties |-> 4]
DocTypography == [base |-> 6, properties |-> 5]
DocBadKey == [base |-> 7, properties |-> Absent]
DocTypographyBadKey == [base |-> 8, properties |-> Absent]

\* the files of the polaris theme
LightPath == <<"themes", "polaris", "variants", "light", "colors.json">>
DarkPath == <<"themes", "polaris", "variants", "dark", "colors.json">>
ShapePath == <<"themes", "polaris", "shape-and-form.json">>
TypographyPath == <<"themes", "polaris", "typography.json">>

\* a response with status 200 and a JSON body, and a response with status 404
Ok(doc) == [ok |-> TRUE, json |-> doc]
NotFound == [ok |-> FALSE]

ServerWith(light, shape, typography) ==
    (FullPath(LightPath) :> light) @@ (FullPath(DarkPath) :> Ok(DocDark))
    @@ (FullPath(ShapePath) :> shape) @@ (FullPath(TypographyPath) :> typography)

\* what the server holds, options.preloadedThemes and options.enableCache
Worlds == {
    [server |-> ServerWith(Ok(DocLight), Ok(DocShape), Ok(DocTypography)),
     preloaded |-> (ShapePath :> DocShape), enableCache |-> TRUE],
    [server |-> ServerWith(Ok(DocLight), Ok(DocShape), Ok(DocTypography)),
     preloaded |-> <<>>, enableCache |-> FALSE],
    [server |-> ServerWith(Ok(DocBadKey), Ok(DocShape), Ok(DocTypographyBadKey)),
     preloaded |-> (ShapePath :> DocShape) @@ (DarkPath :> DocDark), enableCache |-> FALSE],
    [server |-> ServerWith(Ok(Null), Ok(DocShape), Ok(DocTypography)),
     preloaded |-> (ShapePath :> DocShape), enableCache |-> FALSE],
    [server |-> ServerWith(Ok(DocLight), NotFound, Ok(DocTypography)),
     preloaded |-> <<>>, enableCache |-> FALSE],
    [server |-> ServerWith(Ok(DocLight), Ok(DocShape), Ok(DocTypography)),
     preloaded |-> (LightPath :> DocLight) @@ (ShapePath :> DocBadKey)
                       @@ (TypographyPath :> Null),
     enableCache |-> TRUE] }

\* the arrays of paths handed to loadThemeSet directly
ThemeSets == { <<TypographyPath, DarkPath>> }

\* new ServiceNowThemeLoader(options), nothing loaded
InitLoader ==
    /\ op = "loader"
    /\ ScaleIdle
    /\ heap = LoaderObjects
    /\ themes = <<>>
    /\ merged = <<>>
    /\ folded = <<>>
    /\ foldNext = 0
    /\ generated = <<>>
    /\ CallIdle
    /\ resolvedVars = <<>>
    /\ history = <<>>
    /\ \E w \in Worlds :
          /\ server = w.server
          /\ preloadedThemes = w.preloaded
          /\ enableCache = w.enableCache
    /\ cache = <<>>
    /\ activeTheme = Null
    /\ style = <<>>
    /\ calls = <<>>
    /\ warned = <<>>
    /\ page = NoPage

\* the fetches of the calls cs that have not completed
InFlight(cs) ==
    Cardinality({<<c, i>> \in (1..Len(cs)) \X (1..3) :
                    i <= Len(cs[c].slots) /\ cs[c].slots[i].state = "pending"})

\* the call as it stands at its first await, awaited by `by`
NewCall(method, themePaths, slots, by) ==
    [method |-> method, paths |-> themePaths, slots |-> slots,
     status |-> "loading", result |-> Undefined, applied |-> <<>>, by |-> by]

\* the synchronous part of loadThemeSet(themePaths) or loadAndApply(themePath):
\* every loadSingleTheme runs up to its first await
StartCall(method, themePaths) ==
    /\ op = "loader"
    /\ Len(calls) < MaxCalls
    /\ \E slots \in {[i \in 1..Len(themePaths) |->
                          StartLoad(preloadedThemes, enableCache, cache, themePaths[i])]} :
          /\ InFlight(calls) + InFlight(<<[slots |-> slots]>>) <= MaxInFlight
          /\ calls' = Append(calls, NewCall(method, themePaths, slots, Direct))
    /\ warned' = warned \o PreloadedWarnings(heap, preloadedThemes, themePaths)
    /\ UNCHANGED <<op, enableCache, preloadedThemes, server, cache, activeTheme, style, page>>
    /\ UNCHANGED <<scaleVars, mergeVars, generated, callVars, parserVars>>

LoadThemeSet == \E themePaths \in ThemeSets : StartCall("loadThemeSet", themePaths)

LoadTheme ==
    \E variant \in {"light"} :
        StartCall("loadThemeSet", ThemePaths("polaris", variant))

LoadAndApply == \E themePath \in {LightPath} : StartCall("loadAndApply", <<themePath>>)

\* a call all of whose documents were preloaded or cached when it was made:
\* it resumes after its await without any fetch
Resumable(c) == calls[c].status = "loading" /\ Settled(calls[c])

\* the state after the rest of call c has run
Resumed(c, newCalls, h) ==
    \E next \in {Continue(newCalls[c], h, style, activeTheme)} :
       /\ calls' = [newCalls EXCEPT ![c] = next.call]
       /\ heap' = next.heap
       /\ style' = next.style
       /\ activeTheme' = next.activeTheme
       /\ generated' = generated \o next.logged
       /\ page' = PageAfter(page, next.call)

\* the microtasks of the calls made in the current turn: a loadAndApply
\* awaits one promise and resumes before a loadThemeSet, which awaits
\* Promise.all; calls of one kind resume in the order they were made
Resume ==
    \E c \in 1..Len(calls) :
        /\ op = "loader"
        /\ Resumable(c)
        /\ \A d \in 1..Len(calls) :
               Resumable(d) =>
                   \/ d = c
                   \/ (calls[d].method = calls[c].method /\ c < d)
                   \/ (calls[c].method = "loadAndApply" /\ calls[d].method = "loadThemeSet")
        /\ Resumed(c, calls, heap)
        /\ UNCHANGED <<op, enableCache, preloadedThemes, server, cache, warned>>
        /\ UNCHANGED <<themes, merged, folded, foldNext>>
        /\ UNCHANGED <<scaleVars, callVars, parserVars>>

\* the fetch for path i of call c completes: the rest of loadSingleTheme
\* runs (validate, warn, cache) and, if that settles Promise.all, the rest of
\* the call
FetchComplete ==
    \E c \in 1..Len(calls) : \E i \in 1..Len(calls[c].slots) :
        /\ op = "loader"
        /\ calls[c].slots[i].state = "pending"
        /\ \A d \in 1..Len(calls) : ~Resumable(d)
        /\ LET themePath == calls[c].paths[i]
               response == server[FullPath(themePath)]
               newCalls == [calls EXCEPT ![c].slots[i] = FetchedSlot(response)]
           IN /\ warned' = IF response.ok
                            THEN warned \o ValidationWarning(heap, themePath, response.json)
                            ELSE warned
              /\ cache' = IF response.ok /\ enableCache
                           THEN CacheSet(cache, FullPath(themePath), response.json, calls[c].slots[i])
                           ELSE cache
              /\ IF calls[c].status = "loading" /\ Settled(newCalls[c])
                 THEN Resumed(c, newCalls, heap)
                 ELSE /\ calls' = newCalls
                      /\ UNCHANGED <<heap, style, activeTheme, generated, page>>
        /\ UNCHANGED <<op, enableCache, preloadedThemes, server>>
        /\ UNCHANGED <<themes, merged, folded, foldNext>>
        /\ UNCHANGED <<scaleVars, callVars, parserVars>>

\* removeTheme(), called before the last of the calls is made
RemoveThemeAndProperties ==
    /\ op = "loader"
    /\ Len(calls) < MaxCalls
    /\ activeTheme # Null
    /\ activeTheme' = Null
    /\ style' = <<>>
    /\ UNCHANGED <<op, enableCache, preloadedThemes, server, cache, calls, warned, page>>
    /\ UNCHANGED <<scaleVars, mergeVars, generated, callVars, parserVars>>
RemoveTheme ==
    /\ op = "loader"
    /\ Len(calls) < MaxCalls
    /\ activeTheme # Null
    /\ activeTheme' = Null
    /\ UNCHANGED <<op, enableCache, preloadedThemes, server, cache, style, calls, warned,
                   page>>
    /\ UNCHANGED <<scaleVars, mergeVars, generated, callVars, parserVars>>

\* clearCache(), called before the last of the calls is made
ClearCache ==
    /\ op = "loader"
    /\ Len(calls) < MaxCalls
    /\ cache # <<>> \/ (enableCache /\ MarkInFlight(calls) # calls)
    /\ cache' = <<>>
    /\ calls' = IF enableCache THEN MarkInFlight(calls) ELSE calls
    /\ UNCHANGED <<op, enableCache, preloadedThemes, server, activeTheme, style, warned,
                   page>>
    /\ UNCHANGED <<scaleVars, mergeVars, generated, callVars, parserVars>>

\* returned = parser.parse(merged) for the theme a loadThemeSet call returned,
\* called once no call is in progress
ParseMerged ==
    \E c \in 1..Len(calls) :
        /\ op = "loader"
        /\ returned = <<>>
        /\ \A d \in 1..Len(calls) :
               /\ calls[d].status # "loading"
               /\ \A i \in 1..Len(calls[d].slots) : calls[d].slots[i].state # "pending"
        /\ calls[c].method = "loadThemeSet"
        /\ calls[c].status = "resolved"
        /\ LET res == parse([resolvedVars |-> resolvedVars], heap, calls[c].result)
           IN /\ returned' = <<[call |-> c, text |-> res.text]>>
              /\ resolvedVars' = res.resolvedVars
        /\ UNCHANGED <<op, value, history>>
        /\ UNCHANGED <<scaleVars, mergeVars, generated, loaderVars>>

NextLoader ==
    \/ LoadThemeSet
    \/ LoadTheme
    \/ LoadAndApply
    \/ Resume
    \/ FetchComplete
    \/ RemoveTheme
    \/ ClearCache
    \/ ParseMerged

SpecLoader == InitLoader /\ [][NextLoader]_vars

(***************************************************************************)
(* Specification SpecPage: a page that calls withThemes, and the user's    *)
(* selections in the theme switcher it injects                             *)
(***************************************************************************)
\* number of selections the user makes in the switcher
MaxSelections == 2

CoralDarkPath == <<"themes", "coral", "variants", "dark", "colors.json">>
CoralDimPath == <<"themes", "coral", "variants", "dim", "colors.json">>
CoralDimTokensPath == <<"themes", "coral", "variants", "dim", "tokens.json">>

\* the server of the page: the polaris files and the shared files of coral,
\* and no colors.json for the dim variant of coral
PageServer ==
    ServerWith(Ok(DocLight), Ok(DocShape), Ok(DocTypography))
    @@ (FullPath(<<"themes", "coral", "shape-and-form.json">>) :> Ok(DocShape))
    @@ (FullPath(<<"themes", "coral", "typography.json">>) :> Ok(DocTypography))
    @@ (FullPath(CoralDimPath) :> NotFound)

\* the preloadedThemes argument of withThemes: its keys in their order and
\* its documents
Bundles == {
    [keys |-> <<>>, bundle |-> <<>>],
    [keys |-> <<LightPath, DarkPath, ShapePath>>,
     bundle |-> (LightPath :> DocLight) @@ (DarkPath :> DocDark) @@ (ShapePath :> DocShape)],
    [keys |-> <<CoralDimTokensPath, CoralDarkPath, LightPath, ShapePath, TypographyPath>>,
     bundle |-> (CoralDimTokensPath :> DocShape) @@ (CoralDarkPath :> DocDark)
                @@ (LightPath :> DocLight) @@ (ShapePath :> DocShape)
                @@ (TypographyPath :> DocTypography)] }

\* the options argument of withThemes
PageOptions ==
    [defaultTheme : {"", "polaris", "nova"}, defaultVariant : {"", "dark", "dim"},
     showSwitcher : BOOLEAN, callback : BOOLEAN, enableCache : BOOLEAN]

\* the page is loaded, withThemes has not been called
InitPage ==
    /\ op = "loader"
    /\ ScaleIdle
    /\ heap = LoaderObjects
    /\ themes = <<>>
    /\ merged = <<>>
    /\ folded = <<>>
    /\ foldNext = 0
    /\ generated = <<>>
    /\ CallIdle
    /\ resolvedVars = <<>>
    /\ history = <<>>
    /\ server = PageServer
    /\ preloadedThemes = <<>>
    /\ enableCache = TRUE
    /\ cache = <<>>
    /\ activeTheme = Null
    /\ style = <<>>
    /\ calls = <<>>
    /\ warned = <<>>
    /\ \E b \in Bundles : page = [NoPage EXCEPT !.keys = b.keys, !.bundle = b.bundle]

\* withThemes(preloadedThemes, options, initFn) up to its return of null, its
\* throw, or its await of loader.loadTheme(defaultTheme, defaultVariant)
WithThemes ==
    \E options \in PageOptions :
        /\ op = "loader"
        /\ page.setup = "none"
        /\ LET ts == parseThemeStructure(page.keys)
               decided == Decide(ts, options)
               given == [defaultTheme |-> options.defaultTheme,
                         defaultVariant |-> options.defaultVariant,
                         showSwitcher |-> options.showSwitcher,
                         callback |-> options.callback]
               themePaths == ThemePaths(DefaultTheme(ts, options), DefaultVariant(ts, options))
           IN IF decided.outcome = "load"
              THEN /\ enableCache' = options.enableCache
                   /\ preloadedThemes' = page.bundle
                   /\ calls' = <<NewCall("loadThemeSet", themePaths,
                                    [i \in 1..Len(themePaths) |->
                                        StartLoad(page.bundle, options.enableCache, <<>>,
                                                  themePaths[i])],
                                    ByWithThemes(DefaultTheme(ts, options),
                                                 DefaultVariant(ts, options)))>>
                   /\ warned' = warned \o PreloadedWarnings(heap, page.bundle, themePaths)
                   /\ page' = [page EXCEPT !.options = given, !.themes = ts,
                                           !.setup = "loading"]
              ELSE /\ page' = [page EXCEPT !.options = given, !.themes = ts,
                                           !.errors = @ \o decided.logged,
                                           !.setup = IF decided.outcome = "null"
                                                     THEN "null" ELSE "rejected"]
                   /\ UNCHANGED <<enableCache, preloadedThemes, calls, warned>>
        /\ UNCHANGED <<op, server, cache, activeTheme, style>>
        /\ UNCHANGED <<scaleVars, mergeVars, generated, callVars, parserVars>>

\* the user selects themeName:variant in the switcher: handleThemeChange up
\* to its await of this._loader.loadTheme(themeName, variant)
HandleThemeChange ==
    \E t \in 1..Len(page.themes) : \E v \in 1..Len(page.themes[t].variants) :
        /\ op = "loader"
        /\ page.switcher.injected
        /\ page.selections < MaxSelections
        /\ \A d \in 1..Len(calls) : ~Resumable(d)
        /\ LET themeName == page.themes[t].name
               variant == page.themes[t].variants[v]
               themePaths == ThemePaths(themeName, variant)
           IN /\ calls' = Append(calls,
                     NewCall("loadThemeSet", themePaths,
                             [i \in 1..Len(themePaths) |->
                                 StartLoad(preloadedThemes, enableCache, cache, themePaths[i])],
                             BySwitcher(themeName, variant)))
              /\ warned' = warned \o PreloadedWarnings(heap, preloadedThemes, themePaths)
        /\ page' = [page EXCEPT !.selections = @ + 1]
        /\ UNCHANGED <<op, enableCache, preloadedThemes, server, cache, activeTheme, style>>
        /\ UNCHANGED <<scaleVars, mergeVars, generated, callVars, parserVars>>

\* the promise of the user's callback resolves: withThemes returns the loader
CallbackReturns ==
    /\ op = "loader"
    /\ page.setup = "callback"
    /\ \A d \in 1..Len(calls) : ~Resumable(d)
    /\ page' = [page EXCEPT !.setup = "returned"]
    /\ UNCHANGED <<op, enableCache, preloadedThemes, server, cache, activeTheme, style,
                   calls, warned>>
    /\ UNCHANGED <<scaleVars, mergeVars, generated, callVars, parserVars>>

NextPage ==
    \/ WithThemes
    \/ HandleThemeChange
    \/ CallbackReturns
    \/ Resume
    \/ FetchComplete

SpecPage == InitPage /\ [][NextPage]_vars

(***************************************************************************)
(* Properties of generateColorScale, checked under SpecScale               *)
(***************************************************************************)
ScaleDone(n) == op = "generateColorScale" /\ pc = "done" /\ points = n

Abs(x) == IF x < 0 THEN 0 - x ELSE x

\* v is an integer nearest to the fraction p / q (q > 0)
Nearest(v, p, q) == 2 * Abs(v * q - p) <= q

\* s is "r,g,b" with three decimal integers in 0..255 and nothing else
IsColorTriple(s) ==
    /\ Len(Split(s)) = 3
    /\ \A k \in 1..3 :
          LET part == Split(s)[k]
          IN /\ part # <<>>
             /\ \A j \in 1..Len(part) : IsDigit(part[j])
             /\ Number(part) \in 0..255

\* C1: for every base with integer channels in 0..255 the 4-point scale has
\* exactly 4 entries and the entry at index 1 is the input colour itself,
\* character for character and channel for channel.
C1_BaseEntryExact ==
    ScaleDone(4) =>
        /\ Len(scale) = 4
        /\ scale[2] = baseColor
        /\ ParseChannels(scale[2]) = rgb

C1_Witness ==
    /\ ScaleDone(4)
    /\ rgb = <<61, 74, 80>>
    /\ scale[2] = <<"6", "1", ",", "7", "4", ",", "8", "0">>

\* C2: for every base the 22-point scale has exactly 22 entries, entry 0 is
\* "255,255,255" and entry 21 is "0,0,0", whatever the base.
C2_WhiteAndBlackEnds ==
    ScaleDone(22) =>
        /\ Len(scale) = 22
        /\ scale[1] = <<"2", "5", "5", ",", "2", "5", "5", ",", "2", "5", "5">>
        /\ scale[22] = <<"0", ",", "0", ",", "0">>

C2_Witness ==
    /\ ScaleDone(22)
    /\ rgb = <<200, 0, 0>>
    /\ Len(scale) = 22
    /\ scale[1] # scale[2]
    /\ scale[22] # scale[21]

\* C7: in the 4-point scale, per channel c, index 0 is c + (255 - c) * 0.25,
\* index 2 is c * 0.80 and index 3 is c * 0.65, each rounded to a nearest
\* integer.
C7_FourPointFormulas ==
    ScaleDone(4) =>
        \A k \in 1..3 :
            LET c == rgb[k]
            IN /\ Nearest(ParseChannels(scale[1])[k], 4 * c + (255 - c), 4)
               /\ Nearest(ParseChannels(scale[3])[k], 80 * c, 100)
               /\ Nearest(ParseChannels(scale[4])[k], 65 * c, 100)

\* a colour whose first channel is a tie at index 3: 10 * 0.65 = 6.5
C7_Witness ==
    /\ ScaleDone(4)
    /\ rgb = <<10, 0, 0>>
    /\ scale = << <<"7", "1", ",", "6", "4", ",", "6", "4">>,
                  <<"1", "0", ",", "0", ",", "0">>,
                  <<"8", ",", "0", ",", "0">>,
                  <<"7", ",", "0", ",", "0">> >>

\* C8: for every interior index i (0 < i < 21) of the 22-point scale, with
\* t = i/21, each channel is 255 + (c - 255) * (t/0.5) rounded when t < 0.5
\* and c * (1 - (t - 0.5)/0.5) rounded otherwise.
C8_InteriorFormulas ==
    ScaleDone(22) =>
        \A i \in 1..20 : \A k \in 1..3 :
            LET c == rgb[k]
                v == ParseChannels(scale[i + 1])[k]
            IN IF 2 * i < 21
               THEN Nearest(v, 255 * 21 + (c - 255) * 2 * i, 21)
               ELSE Nearest(v, c * (42 - 2 * i), 21)

C8_Witness ==
    /\ ScaleDone(22)
    /\ rgb = <<61, 74, 80>>
    /\ scale[11] = <<"7", "0", ",", "8", "3", ",", "8", "8">>
    /\ scale[12] = <<"5", "8", ",", "7", "0", ",", "7", "6">>

\* C9 as stated: the 22-point scale contains the base colour itself as an
\* entry (its midpoint), besides white at index 0 and black at index 21.
C9_BaseIsAnEntry ==
    ScaleDone(22) =>
        /\ scale[1] = <<"2", "5", "5", ",", "2", "5", "5", ",", "2", "5", "5">>
        /\ scale[22] = <<"0", ",", "0", ",", "0">>
        /\ \E k \in 1..22 : scale[k] = baseColor

\* C9 amended: the 22-point scale has white at index 0 and black at index 21;
\* the base is the midpoint t = 0.5, which lies between index 10 and index 11
\* and is not sampled: per channel, entry 11 <= base <= entry 10, entry 10 is
\* 1/21 of the way from the base to white and entry 11 is 1/21 of the way from
\* the base to black (each rounded).
C9_BaseBetweenMiddleEntries ==
    ScaleDone(22) =>
        /\ scale[1] = <<"2", "5", "5", ",", "2", "5", "5", ",", "2", "5", "5">>
        /\ scale[22] = <<"0", ",", "0", ",", "0">>
        /\ \A k \in 1..3 :
              LET c == rgb[k]
                  above == ParseChannels(scale[11])[k]
                  below == ParseChannels(scale[12])[k]
              IN /\ below <= c
                 /\ c <= above
                 /\ Nearest(above, 21 * c + (255 - c), 21)
                 /\ Nearest(below, 21 * c - c, 21)

\* a base that is not an entry of its own scale
C9_Witness ==
    /\ ScaleDone(22)
    /\ rgb = <<128, 0, 0>>
    /\ \A k \in 1..22 : scale[k] # baseColor
    /\ scale[11] = <<"1", "3", "4", ",", "1", "2", ",", "1", "2">>
    /\ scale[12] = <<"1", "2", "2", ",", "0", ",", "0">>

\* C10: every entry of every scale (4-point and 22-point) is three decimal
\* integers in 0..255: no fractional, negative or larger channel.
C10_ChannelsInRange ==
    (op = "generateColorScale" /\ pc = "done") =>
        \A i \in 1..Len(scale) : IsColorTriple(scale[i])

\* the extremes of the channel range, in both scales
C10_Witness ==
    /\ op = "generateColorScale" /\ pc = "done"
    /\ rgb = <<255, 0, 0>>
    /\ Len(scale) >= 4
    /\ ParseChannels(scale[1])[1] = 255
    /\ ParseChannels(scale[4])[2] = 0

(***************************************************************************)
(* Properties of merge, checked under SpecMerge                            *)
(***************************************************************************)
MergeDone == op = "merge" /\ Len(merged) = 1

FoldDone == op = "merge" /\ Len(folded) = 1 /\ foldNext > Len(themes)

\* the two sections of a document, as the objects they refer to
BaseOf(doc) == IF doc.base = Absent THEN EmptyObject ELSE heap[doc.base]
PropertiesOf(doc) ==
    IF doc.properties = Absent THEN EmptyObject ELSE heap[doc.properties]

\* the sections the input documents had before any call
InputBase(i) ==
    IF themes[i].base = Absent THEN EmptyObject ELSE PoolObjects[themes[i].base]
InputProperties(i) ==
    IF themes[i].properties = Absent THEN EmptyObject
    ELSE PoolObjects[themes[i].properties]

InputKeys ==
    UNION {{PoolObjects[r][j][1] : j \in 1..Len(PoolObjects[r])} :
              r \in 1..Len(PoolObjects)}

Last(S) == CHOOSE i \in S : \A j \in S : j <= i

\* the value of key k in the last input document that defines it
LastBaseValue(k) ==
    LET S == {i \in 1..Len(themes) : Has(InputBase(i), k)}
    IN IF S = {} THEN Undefined ELSE Get(InputBase(Last(S)), k)
LastPropertyValue(k) ==
    LET S == {i \in 1..Len(themes) : Has(InputProperties(i), k)}
    IN IF S = {} THEN Undefined ELSE Get(InputProperties(Last(S)), k)

NonEmptyString(v) == IsString(v) /\ v.str # <<>>

RoleNames ==
    {neutralColors[i] : i \in 1..Len(neutralColors)}
    \cup {fourPointColors[i] : i \in 1..Len(fourPointColors)}

\* the `{role}-{index}` keys of the roles that base gives a non-empty string
ScaleKeys(base) ==
    {role \o <<"-">> \o NumberToString(i) :
        role \in {r \in RoleNames : NonEmptyString(Get(base, r))}, i \in 0..21}

\* C3 as stated: merging a base whose --now-color--primary is "61,74,80"
\* stores "144,152,155", "61,74,80", "49,59,64", "40,48,52" at
\* --now-color--primary-0 .. -3.
C3_SpecExample ==
    (MergeDone /\ LastBaseValue(KeyPrimary) = Str(ColorA)) =>
        LET base == BaseOf(merged[1])
        IN /\ Get(base, KeyPrimary \o <<"-", "0">>) = Str(C3Spec0)
           /\ Get(base, KeyPrimary \o <<"-", "1">>) = Str(ColorA)
           /\ Get(base, KeyPrimary \o <<"-", "2">>) = Str(C3E2)
           /\ Get(base, KeyPrimary \o <<"-", "3">>) = Str(C3E3)

\* C3 amended: the stored scale is "110,119,124", "61,74,80", "49,59,64",
\* "40,48,52": index 0 is round(c + (255 - c) * 0.25) per channel, which is
\* 110, 119, 124 for 61, 74, 80.
C3_CodeExample ==
    (MergeDone /\ LastBaseValue(KeyPrimary) = Str(ColorA)) =>
        LET base == BaseOf(merged[1])
        IN /\ Get(base, KeyPrimary \o <<"-", "0">>) = Str(C3Code0)
           /\ Get(base, KeyPrimary \o <<"-", "1">>) = Str(ColorA)
           /\ Get(base, KeyPrimary \o <<"-", "2">>) = Str(C3E2)
           /\ Get(base, KeyPrimary \o <<"-", "3">>) = Str(C3E3)
           /\ ~Has(base, KeyPrimary \o <<"-", "4">>)

C3_Witness ==
    /\ MergeDone
    /\ themes = <<Pool[1]>>
    /\ Len(BaseOf(merged[1])) = 5
    /\ Get(BaseOf(merged[1]), KeyPrimary0) = Str(C3Code0)

\* C4 as stated: for every key k, in base and in properties, the merged value
\* of k is the value given by the last input document that defines k.
C4_LastDocumentWins ==
    MergeDone =>
        \A k \in InputKeys :
            /\ Get(BaseOf(merged[1]), k) = LastBaseValue(k)
            /\ Get(PropertiesOf(merged[1]), k) = LastPropertyValue(k)

\* C4 amended: the same, for every key of properties and for every key of
\* base except the `{role}-{index}` keys of a recognized role whose merged
\* value is a non-empty string: those hold the generated scale.
C4_LastDocumentWinsExceptScaleKeys ==
    MergeDone =>
        \A k \in InputKeys :
            /\ k \notin ScaleKeys(BaseOf(merged[1])) =>
                   Get(BaseOf(merged[1]), k) = LastBaseValue(k)
            /\ Get(PropertiesOf(merged[1]), k) = LastPropertyValue(k)

\* the first and the last document define --now-color--primary, the first two
\* --now-font-size--md, and only the first --now-spacing--md
C4_Witness ==
    /\ MergeDone
    /\ themes = <<Pool[2], Pool[4], Pool[1]>>
    /\ Get(BaseOf(merged[1]), KeyPrimary) = Str(ColorA)
    /\ Get(BaseOf(merged[1]), KeyFontSize) = Str(Px12)
    /\ Get(PropertiesOf(merged[1]), KeySpacing) = Str(Px16)

\* C5 as stated: for all documents A, B, C, merge([A, B, C]) and
\* merge([merge([A, B]), C]) have the same base and properties mappings.
C5_Associative ==
    (MergeDone /\ FoldDone /\ Len(themes) = 3) =>
        /\ AsMap(BaseOf(merged[1])) = AsMap(BaseOf(folded[1]))
        /\ AsMap(PropertiesOf(merged[1])) = AsMap(PropertiesOf(folded[1]))

\* no document gives a recognized role a value that is not a non-empty string
\* after an earlier document gave it a non-empty string
NoRoleWithdrawn ==
    \A role \in RoleNames : \A i, j \in 1..Len(themes) :
        (i < j /\ NonEmptyString(Get(InputBase(i), role)) /\ Has(InputBase(j), role))
            => NonEmptyString(Get(InputBase(j), role))

\* C5 amended: merge(themes) and the pairwise left fold have the same base
\* and properties mappings provided no document replaces a recognized role's
\* non-empty string by a value that is not a non-empty string.
C5_AssociativeUnlessRoleWithdrawn ==
    (MergeDone /\ FoldDone /\ NoRoleWithdrawn) =>
        /\ AsMap(BaseOf(merged[1])) = AsMap(BaseOf(folded[1]))
        /\ AsMap(PropertiesOf(merged[1])) = AsMap(PropertiesOf(folded[1]))

\* A sets the role, B supplies a scale key by hand, C sets the role again
C5_Witness ==
    /\ MergeDone /\ FoldDone
    /\ themes = <<Pool[1], Pool[4], Pool[2]>>
    /\ NoRoleWithdrawn
    /\ Get(BaseOf(folded[1]), KeyPrimary \o <<"-", "1">>) = Str(ColorB)
    /\ Get(BaseOf(folded[1]), KeyPrimary0) # Str(Literal0)

\* C6: merge never mutates its input documents: every object that exists
\* when a merge call starts (the sections of the documents handed to it, of
\* every other loaded document and of earlier results) has the same entries
\* when the call returns, scale expansion included.
C6_InputsNotMutated ==
    [][\A r \in 1..Len(heap) : heap'[r] = heap[r]]_vars

\* the same documents merged three times, with scales written each time
C6_Witness ==
    /\ MergeDone /\ FoldDone
    /\ themes = <<Pool[2], Pool[1], Pool[2]>>
    /\ Len(heap) = Len(PoolObjects) + 6
    /\ Len(BaseOf(merged[1])) = 6
    /\ \A r \in 1..Len(PoolObjects) : heap[r] = PoolObjects[r]

(***************************************************************************)
(* Properties of generateScales, checked under SpecScales                  *)
(***************************************************************************)
ScalesDone == op = "generateScales" /\ returned # <<>>

Keys(o) == {o[i][1] : i \in 1..Len(o)}

\* the base handed to generateScales, before and after the step
BaseBefore == IF themes[1].base = Absent THEN EmptyObject ELSE heap[themes[1].base]
BaseAfter == IF themes[1].base = Absent THEN EmptyObject ELSE heap'[themes[1].base]

NeutralRoles == {neutralColors[i] : i \in 1..Len(neutralColors)}
FourPointRoles == {fourPointColors[i] : i \in 1..Len(fourPointColors)}

\* role-0 .. role-21 for the neutral roles of the set, role-0 .. role-3 for
\* its 4-point roles
IndexedKeys(roles) ==
    {r \o <<"-">> \o NumberToString(i) : r \in roles \cap NeutralRoles, i \in 0..21}
    \cup {r \o <<"-">> \o NumberToString(i) : r \in roles \cap FourPointRoles, i \in 0..3}

EntryCount(roles) ==
    22 * Cardinality(roles \cap NeutralRoles) + 4 * Cardinality(roles \cap FourPointRoles)

StringRoles(o) == {r \in RoleNames : IsString(Get(o, r))}
NonEmptyStringRoles(o) == {r \in RoleNames : NonEmptyString(Get(o, r))}

\* C11 as stated: scale expansion adds exactly role-0..role-21 for the
\* neutral role and role-0..role-3 for each 4-point role that base holds with
\* a string value, nothing else, and the generated-entry count is
\* 22 * (neutral present) + 4 * (number of 4-point roles present).
C11_StringRolesExpanded ==
    [][(op = "generateScales" /\ themes[1].base # Absent) =>
          LET roles == StringRoles(BaseBefore)
          IN /\ Keys(BaseAfter) = Keys(BaseBefore) \cup IndexedKeys(roles)
             /\ generated' = Append(generated, EntryCount(roles))]_vars

\* C11 amended: the same for each role that base holds with a NON-EMPTY
\* string value; a base that defines exactly the neutral role and exactly
\* one 4-point role, both non-empty strings, gains exactly 26 new keys.
C11_NonEmptyStringRolesExpanded ==
    [][(op = "generateScales" /\ themes[1].base # Absent) =>
          LET roles == NonEmptyStringRoles(BaseBefore)
          IN /\ Keys(BaseAfter) = Keys(BaseBefore) \cup IndexedKeys(roles)
             /\ generated' = Append(generated, EntryCount(roles))
             /\ (Keys(BaseBefore) = {KeyNeutral, KeyPrimary} /\ roles = Keys(BaseBefore))
                    => Cardinality(Keys(BaseAfter) \ Keys(BaseBefore)) = 26]_vars

\* a base of exactly the neutral role and one 4-point role, expanded
C11_Witness ==
    /\ ScalesDone
    /\ Len(heap[1]) = 28
    /\ heap[1][1] = <<KeyNeutral, Str(ColorN)>>
    /\ heap[1][2] = <<KeyPrimary, Str(ColorA)>>
    /\ Has(heap[1], KeyNeutral \o <<"-", "2", "1">>)
    /\ Has(heap[1], KeyPrimary \o <<"-", "3">>)
    /\ generated = <<26>>

C15_NoGarbledEntry ==
    ScalesDone =>
        \A k \in IndexedKeys(RoleNames) :
            Has(BaseOf(themes[1]), k) => IsColorTriple(Get(BaseOf(themes[1]), k).str)

(***************************************************************************)
(* Properties of validate, checked under SpecValidate                      *)
(***************************************************************************)
ValidateDone == op = "validate" /\ returned # <<>>

\* the key does not start with the two characters "--"
LacksPrefix(k) == Len(k) < 2 \/ k[1] # "-" \/ k[2] # "-"

\* the entries of the two sections of the validated document whose keys offend
OffendingBase ==
    IF IsDocument(value) /\ value.base # Absent
    THEN SelectSeq(heap[value.base], LAMBDA e : LacksPrefix(e[1]) /\ e[1] # KeyIsDark)
    ELSE <<>>
OffendingProperties ==
    IF IsDocument(value) /\ value.properties # Absent
    THEN SelectSeq(heap[value.properties], LAMBDA e : LacksPrefix(e[1]))
    ELSE <<>>

NoSections == IsDocument(value) /\ value.base = Absent /\ value.properties = Absent

\* the message quotes the key: it contains "key" between double quotes
NamesKey(msg, k) ==
    LET quoted == <<"\"">> \o k \o <<"\"">>
    IN \E i \in 1..Len(msg) :
          i + Len(quoted) - 1 <= Len(msg) /\ SubSeq(msg, i, i + Len(quoted) - 1) = quoted

\* C13: validate returns a report {valid, errors}; valid is false exactly when
\* the document is absent or not an object, or both sections are absent, or a
\* base key other than isDark lacks the "--" prefix, or a properties key
\* lacks it; valid is true iff errors is empty; every offending key has its
\* own error naming it, and the errors come in the order missing sections,
\* base keys, properties keys.
C13_ValidationReport ==
    ValidateDone =>
        LET report == returned[1]
            first == IF NoSections THEN 1 ELSE 0
            nb == Len(OffendingBase)
        IN /\ DOMAIN report = {"valid", "errors"}
           /\ report.valid = (report.errors = <<>>)
           /\ ~report.valid <=>
                  \/ ~IsDocument(value)
                  \/ NoSections
                  \/ OffendingBase # <<>>
                  \/ OffendingProperties # <<>>
           /\ IsDocument(value) =>
                  /\ Len(report.errors) = first + nb + Len(OffendingProperties)
                  /\ \A j \in 1..nb :
                         NamesKey(report.errors[first + j], OffendingBase[j][1])
                  /\ \A j \in 1..Len(OffendingProperties) :
                         NamesKey(report.errors[first + nb + j], OffendingProperties[j][1])
           /\ ~IsDocument(value) => Len(report.errors) = 1

\* { base: { "bad": "1,2,3" } } of the spec: one error, naming "bad"
C13_Witness ==
    /\ ValidateDone
    /\ value = [base |-> 3, properties |-> Absent]
    /\ heap[3] = << <<KeyBad, Str(Literal0)>> >>
    /\ returned[1].valid = FALSE
    /\ Len(returned[1].errors) = 1
    /\ NamesKey(returned[1].errors[1], KeyBad)

(***************************************************************************)
(* Properties of resolveValue, checked under SpecResolve                   *)
(***************************************************************************)
ResolveDone == op = "resolveValue" /\ returned # <<>>

\* C16: resolveValue returns every value that is not a string unchanged,
\* returns var(<the string>) for every string that starts with "--", whether
\* or not any token has that name, and returns every other string unchanged.
C16_ResolveValue ==
    ResolveDone =>
        returned[1] =
            IF IsString(value) /\ ~LacksPrefix(value.str)
            THEN Str(<<"v", "a", "r", "(">> \o value.str \o <<")">>)
            ELSE value

\* the referenced token exists and has a value, and is still not inlined
C16_Witness ==
    /\ ResolveDone
    /\ value = Str(RefNeutral0)
    /\ Has(resolvedVars, RefNeutral0)
    /\ returned[1] = Str(<<"v", "a", "r", "(", "-", "-", "n", "o", "w", "-", "c", "o", "l", "o", "r", "-", "-", "n", "e", "u", "t", "r", "a", "l", "-", "0", ")">>)

(***************************************************************************)
(* Properties of a parser's call sequence, checked under SpecParser        *)
(***************************************************************************)
\* C20: on one parser, whatever calls were made before, two calls of the same
\* method with the same arguments return the same result; in particular what
\* parse has left in resolvedVars changes no later result.
C20_HistoryIndependent ==
    op = "parser" =>
        \A i, j \in 1..Len(history) :
            (/\ history[i].method = history[j].method
             /\ history[i].args = history[j].args)
                => history[i].result = history[j].result

\* resolveValue of a token before and after a parse that records the token
C20_Witness ==
    /\ op = "parser"
    /\ Len(history) = 3
    /\ history[1].method = "resolveValue" /\ history[1].args = Str(KeyPrimary)
    /\ history[2].method = "parse" /\ history[2].args = Pool[1]
    /\ history[3].method = "resolveValue" /\ history[3].args = Str(KeyPrimary)
    /\ Has(resolvedVars, KeyPrimary)
    /\ history[3].result = Str(VarOf(KeyPrimary))

(***************************************************************************)
(* Properties of the loader, checked under SpecLoader                      *)
(***************************************************************************)
\* the loadThemeSet calls made so far (loadTheme is a loadThemeSet call)
ThemeSetCalls == {c \in 1..Len(calls) : calls[c].method = "loadThemeSet"}

\* every document of call c was obtained: no load of the call was rejected
\* and none is still in flight
AllObtained(c) ==
    \A i \in 1..Len(calls[c].slots) : calls[c].slots[i].state = "fulfilled"

\* C14: validation is advisory.  A loadThemeSet call all of whose documents
\* were obtained is never rejected, whatever validate reported about them:
\* it merges them, applies the merged theme and sets activeTheme.
C14_ValidationNeverBlocks ==
    op = "loader" =>
        \A c \in ThemeSetCalls :
            (AllObtained(c) /\ calls[c].status # "loading")
                => calls[c].status = "resolved"

(***************************************************************************)
(* parse and applyTheme on the merged theme a loadThemeSet call returned   *)
(***************************************************************************)
\* the pairs the claim prescribes for the theme themeData: the base entries
\* but isDark with their values as they are, then the properties entries
\* with resolveValue of their values
PrescribedPairs(themeData) ==
    LET base == IF themeData.base # Absent THEN heap[themeData.base] ELSE <<>>
        properties == IF themeData.properties # Absent THEN heap[themeData.properties]
                      ELSE <<>>
        kept == SelectSeq(base, LAMBDA e : e[1] # KeyIsDark)
    IN kept \o [i \in 1..Len(properties) |->
                  <<properties[i][1],
                    resolveValue([resolvedVars |-> <<>>], properties[i][2])>>]

\* C17: for the merged theme of a loadThemeSet call, the setProperty calls of
\* applyTheme and the declarations of the text parse returns are the same
\* key/value pairs in the same order: every base entry but isDark with its
\* value as it is, then every properties entry with resolveValue of its
\* value; isDark is in neither.
C17_SameSerialisation ==
    (op = "loader" /\ returned # <<>>) =>
        LET c == returned[1].call
            pairs == PrescribedPairs(calls[c].result)
        IN /\ calls[c].applied = pairs
           /\ returned[1].text =
                  RootRule([i \in 1..Len(pairs) |-> Declaration(pairs[i][1], pairs[i][2])])
           /\ \A i \in 1..Len(pairs) : pairs[i][1] # KeyIsDark

\* the light theme: its base has isDark and a colour, its properties a
\* reference, which both serialisers wrap, and a literal
C17_Witness ==
    /\ op = "loader"
    /\ returned # <<>>
    /\ calls[returned[1].call].paths = ThemePaths("polaris", "light")
    /\ Has(heap[calls[returned[1].call].result.base], KeyIsDark)
    /\ \E i \in 1..Len(calls[returned[1].call].applied) :
          calls[returned[1].call].applied[i] = <<KeyBackground, Str(VarOf(RefNeutral0))>>
    /\ \E i \in 1..Len(calls[returned[1].call].applied) :
          calls[returned[1].call].applied[i] = <<KeyPrimary, Str(ColorA)>>

(***************************************************************************)
(* The precedence of the documents of loadTheme                            *)
(***************************************************************************)
\* the resolved loadTheme calls all of whose documents are objects
ThemeCalls ==
    {c \in ThemeSetCalls :
        /\ calls[c].status = "resolved"
        /\ Len(calls[c].paths) = 3
        /\ \A i \in 1..3 : IsDocument(calls[c].slots[i].doc)}

\* the document call c loaded from the path that ends in file
DocumentOf(c, file) ==
    LET i == CHOOSE j \in 1..3 : calls[c].paths[j][Len(calls[c].paths[j])] = file
    IN calls[c].slots[i].doc

ColorsOf(c) == DocumentOf(c, "colors.json")
ShapeOf(c) == DocumentOf(c, "shape-and-form.json")
TypographyOf(c) == DocumentOf(c, "typography.json")

\* the keys the document defines, in either section
KeysOf(doc) == Keys(BaseOf(doc)) \cup Keys(PropertiesOf(doc))

\* what applyTheme sets key k to for a document: its properties value through
\* resolveValue if it has one, its base value otherwise
AppliedValueOf(doc, k) ==
    IF Has(PropertiesOf(doc), k)
    THEN resolveValue([resolvedVars |-> <<>>], Get(PropertiesOf(doc), k))
    ELSE Get(BaseOf(doc), k)

\* the value of the last setProperty call of call c for key k
LastApplied(c, k) ==
    LET S == {i \in 1..Len(calls[c].applied) : calls[c].applied[i][1] = k}
    IN IF S = {} THEN Undefined ELSE calls[c].applied[Last(S)][2]

\* the shared document that decides key k: typography if it defines k,
\* shape-and-form otherwise
SharedFor(c, k) == IF k \in KeysOf(TypographyOf(c)) THEN TypographyOf(c) ELSE ShapeOf(c)

\* C18 as stated: for every key that the colors document and a shared document
\* of a loadTheme call both define, the value merged and applied is the shared
\* document's, typography's before shape-and-form's.
C18_SharedDocumentWins ==
    op = "loader" =>
        \A c \in ThemeCalls :
            \A k \in KeysOf(ColorsOf(c)) \cap
                     (KeysOf(ShapeOf(c)) \cup KeysOf(TypographyOf(c))) :
                k # KeyIsDark =>
                    /\ AppliedValueOf(calls[c].result, k) = AppliedValueOf(SharedFor(c, k), k)
                    /\ LastApplied(c, k) = AppliedValueOf(SharedFor(c, k), k)

\* the shared document that decides key k of one section
SharedForSection(c, k, Section(_)) ==
    IF Has(Section(TypographyOf(c)), k) THEN TypographyOf(c) ELSE ShapeOf(c)

\* C18 amended: the paths are colors, shape-and-form, typography, in that
\* order, and within one section a key that the colors document and a shared
\* document both define has the shared document's value in the merged theme,
\* typography's before shape-and-form's, unless it is a scale key of a role
\* of the merged base; what is applied for a key is the merged properties
\* value through resolveValue if there is one, the merged base value otherwise.
C18_SharedDocumentWinsInSection ==
    op = "loader" =>
        \A c \in ThemeCalls :
            /\ calls[c].paths[1][Len(calls[c].paths[1])] = "colors.json"
            /\ calls[c].paths[2][Len(calls[c].paths[2])] = "shape-and-form.json"
            /\ calls[c].paths[3][Len(calls[c].paths[3])] = "typography.json"
            /\ \A k \in Keys(BaseOf(ColorsOf(c))) \cap
                        (Keys(BaseOf(ShapeOf(c))) \cup Keys(BaseOf(TypographyOf(c)))) :
                   k \notin ScaleKeys(BaseOf(calls[c].result)) =>
                       Get(BaseOf(calls[c].result), k)
                           = Get(BaseOf(SharedForSection(c, k, BaseOf)), k)
            /\ \A k \in Keys(PropertiesOf(ColorsOf(c))) \cap
                        (Keys(PropertiesOf(ShapeOf(c))) \cup Keys(PropertiesOf(TypographyOf(c)))) :
                   Get(PropertiesOf(calls[c].result), k)
                       = Get(PropertiesOf(SharedForSection(c, k, PropertiesOf)), k)
            /\ \A k \in KeysOf(calls[c].result) \ {KeyIsDark} :
                   LastApplied(c, k) = AppliedValueOf(calls[c].result, k)

\* loadTheme('polaris', 'light'): colors, shape-and-form and typography all
\* define --now-font-size--md, colors and shape-and-form --now-spacing--md
C18_Witness ==
    /\ op = "loader"
    /\ \E c \in ThemeCalls :
          /\ calls[c].paths = <<LightPath, ShapePath, TypographyPath>>
          /\ Get(PropertiesOf(ColorsOf(c)), KeyFontSize) = Str(Px12)
          /\ Get(PropertiesOf(ShapeOf(c)), KeyFontSize) = Str(Px14)
          /\ Get(PropertiesOf(calls[c].result), KeyFontSize) = Str(Px18)
          /\ Get(PropertiesOf(calls[c].result), KeySpacing) = Str(Px16)
          /\ LastApplied(c, KeyFontSize) = Str(Px18)

(***************************************************************************)
(* loadThemeSet and the order in which its fetches complete                *)
(***************************************************************************)
\* the document loadSingleTheme obtains for a path: the preloaded one, or the
\* one the server holds (a cached document is the one the server holds)
DocumentAt(themePath) ==
    IF IsPreloaded(preloadedThemes, themePath) THEN preloadedThemes[themePath]
    ELSE server[FullPath(themePath)].json

\* merge of the documents of themePaths taken in the order of themePaths,
\* computed on the documents as the loader was given them
MergedInPathOrder(themePaths) ==
    LET docs == [i \in 1..Len(themePaths) |-> DocumentAt(themePaths[i])]
    IN CHOOSE sections \in {[base |-> res.heap[res.doc.base],
                             properties |-> res.heap[res.doc.properties]] :
                                res \in {merge(LoaderObjects, docs)}} : TRUE

\* C19: the theme a loadThemeSet(paths) call resolves with is merge of the
\* documents taken in the order of paths, in whatever order the loads of the
\* call completed.
C19_MergedInPathOrder ==
    [][op = "loader" =>
          \A c \in ThemeSetCalls :
              (calls[c].status = "loading" /\ calls'[c].status = "resolved") =>
                  \A inOrder \in {MergedInPathOrder(calls[c].paths)} :
                      /\ calls'[c].result.base # Absent
                      /\ calls'[c].result.properties # Absent
                      /\ heap'[calls'[c].result.base] = inOrder.base
                      /\ heap'[calls'[c].result.properties] = inOrder.properties]_vars

\* loadTheme('polaris', 'light') where colors and typography both define
\* "bad": the warnings were logged for typography first, so its fetch
\* completed before that of colors, and the merged value is typography's
C19_Witness ==
    /\ op = "loader"
    /\ Len(calls) = 1
    /\ calls[1].paths = <<LightPath, ShapePath, TypographyPath>>
    /\ calls[1].status = "resolved"
    /\ Len(warned) = 2
    /\ warned[1][1] = TypographyPath
    /\ warned[2][1] = LightPath
    /\ Get(BaseOf(calls[1].result), KeyBad) = Str(ColorB)

(***************************************************************************)
(* The scales of a merged theme, checked under SpecMerge                   *)
(***************************************************************************)
\* the number of points of the scale of a role
PointsOf(role) ==
    IF role \in {neutralColors[i] : i \in 1..Len(neutralColors)} THEN 22 ELSE 4

\* C24: in the merged theme, for every recognized role whose merged base
\* value is a non-empty string, base[`{role}-{i}`] is entry i of
\* generateColorScale(base[role], n) for every i below n, n being 22 for
\* neutral and 4 for the other roles, whatever the input documents gave
\* `{role}-{i}`.
C24_ScalesFollowMergedRole ==
    MergeDone =>
        LET base == BaseOf(merged[1])
        IN \A role \in RoleNames :
               NonEmptyString(Get(base, role)) =>
                   \A i \in 0..(PointsOf(role) - 1) :
                       Get(base, role \o <<"-">> \o NumberToString(i))
                           = Str(generateColorScale(Get(base, role).str, PointsOf(role))[i + 1])

\* one document gives --now-color--primary-0 the value "1,2,3", another gives
\* --now-color--primary "61,74,80": the merged -0 entry is the generated one
C24_Witness ==
    /\ MergeDone
    /\ LastBaseValue(KeyPrimary0) = Str(Literal0)
    /\ LastBaseValue(KeyPrimary) = Str(ColorA)
    /\ Get(BaseOf(merged[1]), KeyPrimary0) = Str(C3Code0)
    /\ Get(BaseOf(merged[1]), KeyPrimary0) # Str(Literal0)

LoadFailed(call) == \E i \in 1..Len(call.slots) : call.slots[i].state = "rejected"

\* C25: a loadThemeSet or loadAndApply call one of whose loads fails is
\* rejected, without a merged theme and without a setProperty call, and the
\* step that rejects it changes neither activeTheme nor a property of the
\* document nor an object (merge is not run).
C25_FailedLoadChangesNothing ==
    [][op = "loader" =>
          \A c \in 1..Len(calls') :
              LoadFailed(calls'[c]) =>
                  /\ calls'[c].status = "rejected"
                  /\ calls'[c].result = Undefined
                  /\ calls'[c].applied = <<>>
                  /\ (c <= Len(calls) /\ calls[c].status = "loading") =>
                         /\ activeTheme' = activeTheme
                         /\ style' = style
                         /\ heap' = heap
                         /\ generated' = generated]_vars

\* a theme is applied, then loadTheme('polaris', 'light') fails on the 404 of
\* shape-and-form.json: the first theme is still the active one
C25_Witness ==
    /\ op = "loader"
    /\ Len(calls) = 2
    /\ calls[1].status = "resolved"
    /\ calls[2].paths = <<LightPath, ShapePath, TypographyPath>>
    /\ calls[2].status = "rejected"
    /\ LoadFailed(calls[2])
    /\ activeTheme = ActiveThemeOf(calls[1])
    /\ DOMAIN style # {}

C22_FreshAfterClearCache ==
    op = "loader" =>
        \A c \in 1..Len(calls) : \A i \in 1..Len(calls[c].slots) :
            ~(calls[c].slots[i].state = "fulfilled" /\ calls[c].slots[i].beforeClear)

\* call c resolves in this step: its theme has just been applied
ResolvesNow(c) ==
    c <= Len(calls) /\ calls[c].status = "loading" /\ calls'[c].status = "resolved"

IsSet(setCalls, k) == \E i \in 1..Len(setCalls) : setCalls[i][1] = k
LastSet(setCalls, k) ==
    setCalls[CHOOSE i \in 1..Len(setCalls) :
                 setCalls[i][1] = k /\ \A j \in (i + 1)..Len(setCalls) : setCalls[j][1] # k][2]

ExpectedTheme ==
    IF page.options.defaultTheme # "" THEN page.options.defaultTheme
    ELSE page.themes[1].name
ExpectedVariant ==
    IF page.options.defaultVariant # "" THEN page.options.defaultVariant
    ELSE IF Includes(VariantsOf(page.themes, ExpectedTheme), "light") THEN "light"
    ELSE VariantsOf(page.themes, ExpectedTheme)[1]

\* the document carries what setCalls set: every custom property with a
\* non-empty last value
Carries(st, setCalls) ==
    \A i \in 1..Len(setCalls) :
        LET k == setCalls[i][1]
            v == LastSet(setCalls, k)
        IN (StartsWith(k, CustomPropertyPrefix) /\ v # Null /\ v # Str(<<>>))
               => (k \in DOMAIN st /\ st[k] = StringOf(v))

\* C23: withThemes invokes the callback only once the default theme has been
\* loaded and applied and, unless showSwitcher is false, the switcher has been
\* injected; if loading the default theme fails withThemes rejects, the
\* callback is never invoked and no switcher is injected.
C23_CallbackAfterDefaultTheme ==
    /\ [][(op = "loader" /\ ~page.invoked /\ page'.invoked) =>
             /\ calls'[1].by.kind = "withThemes"
             /\ calls[1].status = "loading"
             /\ calls'[1].status = "resolved"
             /\ calls'[1].paths = ThemePaths(ExpectedTheme, ExpectedVariant)
             /\ activeTheme' = [paths |-> ThemePaths(ExpectedTheme, ExpectedVariant)]
             /\ Carries(style', calls'[1].applied)
             /\ page.options.showSwitcher =>
                    page'.switcher = [injected |-> TRUE, currentTheme |-> ExpectedTheme,
                                      currentVariant |-> ExpectedVariant]
             /\ ~page.options.showSwitcher => ~page'.switcher.injected]_vars
    /\ [](op = "loader" =>
             /\ page.switcher.injected => calls # <<>> /\ calls[1].status = "resolved"
             /\ (calls # <<>> /\ calls[1].by.kind = "withThemes"
                     /\ calls[1].status = "rejected") =>
                    /\ page.setup = "rejected"
                    /\ ~page.invoked
                    /\ ~page.switcher.injected)

\* coral has no light variant and its variants were detected as dim, dark:
\* its dark variant was loaded as the default, the switcher was injected
\* and the callback invoked
C23_Witness ==
    /\ op = "loader"
    /\ page.options.defaultTheme = ""
    /\ page.options.defaultVariant = ""
    /\ page.keys # <<>>
    /\ page.keys[1] = CoralDimTokensPath
    /\ page.invoked
    /\ page.setup = "callback"
    /\ page.switcher = [injected |-> TRUE, currentTheme |-> "coral", currentVariant |-> "dark"]
    /\ Len(calls) = 1
    /\ calls[1].paths = ThemePaths("coral", "dark")
    /\ calls[1].status = "resolved"
    /\ activeTheme = [paths |-> ThemePaths("coral", "dark")]
    /\ KeyPrimary \in DOMAIN style
    /\ style[KeyPrimary] = ColorB

\* a switcher call resolves, or rejects, in this step
Switched(c) == ResolvesNow(c) /\ calls'[c].by.kind = "switcher"
SwitchFailed(c) ==
    /\ c <= Len(calls)
    /\ calls[c].status = "loading"
    /\ calls'[c].status = "rejected"
    /\ calls'[c].by.kind = "switcher"

\* C30: the switcher dispatches theme-changed with the selected theme and
\* variant, and updates its current theme and variant, at the point where
\* loadTheme for the selection has resolved and the theme is applied, and at
\* no other; when the load fails it dispatches nothing, keeps its current
\* theme and variant, logs the error and does not propagate it.
C30_ThemeChangedAfterLoad ==
    [][op = "loader" =>
          /\ \A c \in 1..Len(calls') :
                Switched(c) =>
                    LET by == calls'[c].by
                    IN /\ page'.events = Append(page.events, [themeName |-> by.themeName,
                                                              variant |-> by.variant])
                       /\ page'.switcher = [injected |-> TRUE,
                                            currentTheme |-> by.themeName,
                                            currentVariant |-> by.variant]
                       /\ calls'[c].paths = ThemePaths(by.themeName, by.variant)
                       /\ activeTheme' = [paths |-> calls'[c].paths]
                       /\ Carries(style', calls'[c].applied)
                       /\ page'.errors = page.errors
          /\ (\A c \in 1..Len(calls') : ~Switched(c)) =>
                /\ page'.events = page.events
                /\ page.switcher.injected => page'.switcher = page.switcher
          /\ \A c \in 1..Len(calls') :
                SwitchFailed(c) =>
                    /\ page'.errors = Append(page.errors, "Failed to switch theme:")
                    /\ page'.setup = page.setup
                    /\ activeTheme' = activeTheme
                    /\ style' = style]_vars

\* after polaris light was loaded as the default, the selection of coral dark
\* was applied and announced, and the selection of coral dim failed
C30_Witness ==
    /\ op = "loader"
    /\ Len(calls) = 3
    /\ calls[1].status = "resolved"
    /\ calls[2].by = BySwitcher("coral", "dark")
    /\ calls[2].status = "resolved"
    /\ calls[3].by = BySwitcher("coral", "dim")
    /\ calls[3].status = "rejected"
    /\ page.events = <<[themeName |-> "coral", variant |-> "dark"]>>
    /\ page.switcher = [injected |-> TRUE, currentTheme |-> "coral", currentVariant |-> "dark"]
    /\ page.errors = <<"Failed to switch theme:">>
    /\ activeTheme = [paths |-> ThemePaths("coral", "dark")]

\* C26: once overlapping loadTheme calls have all resolved, activeTheme, the
\* properties on the document and the switcher's current theme are those of
\* the call made last.
C26_LastRequestedWins ==
    (/\ op = "loader"
     /\ calls # <<>>
     /\ \A c \in 1..Len(calls) : calls[c].status = "resolved")
        => LET last == calls[Len(calls)]
           IN /\ activeTheme = ActiveThemeOf(last)
              /\ Carries(style, last.applied)
              /\ page.switcher.injected =>
                     /\ page.switcher.currentTheme = last.by.themeName
                     /\ page.switcher.currentVariant = last.by.variant

\* C29: when the default theme or the default variant is not among the
\* detected themes, withThemes logs the problem and returns null: it does not
\* throw, loads nothing, injects no switcher and does not invoke the callback.
C29_UnknownDefaultReturnsNull ==
    (/\ op = "loader"
     /\ page.setup # "none"
     /\ page.themes # <<>>
     /\ \/ ~HasTheme(page.themes, ExpectedTheme)
        \/ ~Includes(VariantsOf(page.themes, ExpectedTheme), page.options.defaultVariant)
               /\ page.options.defaultVariant # "")
        => /\ page.setup = "null"
           /\ page.errors # <<>>
           /\ calls = <<>>
           /\ ~page.switcher.injected
           /\ ~page.invoked

====
